---- MODULE Spec2Model ----
(***************************************************************************)
(* Model of the Rancher load-balancer controller                           *)
(* (controller/rancher/rancher.go).                                        *)
(*                                                                         *)
(* Two specifications share this module:                                   *)
(*   Spec      - the reconcile loop: ScheduleApplyConfig, the task queue   *)
(*               worker running sync, the detached requeue goroutines and  *)
(*               Stop.  FairSpec adds the scheduler's fairness.            *)
(*   BuildSpec - BuildConfigFromMetadata applied to a bounded set of       *)
(*               LBMetadata inputs over a fixed metadata snapshot.         *)
(***************************************************************************)
EXTENDS Integers, Sequences, FiniteSets, TLC

\* ------------------------------------------------------------------------
\* Bounds of the model (not program constants)
\* ------------------------------------------------------------------------

\* number of ticks that may fail (each failed tick starts one requeue goroutine)
MaxFailures == 2

\* number of calls of Stop
MaxStopCalls == 2

\* number of ScheduleApplyConfig calls counted while one tick runs
MaxTriggers == 2

\* ------------------------------------------------------------------------
\* Program constants
\* ------------------------------------------------------------------------

\* NewLoadBalancerController: incrementalBackoffInterval: 5
incrementalBackoffInterval == 5

\* Run starts exactly one goroutine running syncQueue.Run
SyncWorkers_two == {"w1", "w2"}

SyncWorkers == {"w1"}

\* GetName
GetName == "rancher"

\* arguments the metadata-change and certificate-poll callbacks pass to
\* ScheduleApplyConfig (a metadata version, a certificate event)
TriggerArgs == {"version-1", "certs"}

\* values of label io.rancher.lb_service.target that GetLBConfigs accepts
ValidTargets == {"any", "only-local", "prefer-local"}

\* NoLabel: the self service carries no io.rancher.lb_service.target label
NoLabel == "<none>"

\* label values a self service is given in the model
TargetLabels == {NoLabel, "any", "prefer-local", "local"}

\* where a fetch made while computing the configs may fail
Faults == {"none", "GetSelfService", "GetSelfHostUUID", "FetchCertificates",
           "ProcessCustomConfig"}

StopCallers == 1..MaxStopCalls

RequeueIds == 1..MaxFailures

VARIABLES
  \* LoadBalancerController fields
  shutdown,            \* lbc.shutdown
  stopCh,              \* number of close(lbc.stopCh) executed (0 = open)
  incrementalBackoff,  \* lbc.incrementalBackoff
  syncQueue,           \* pending keys of lbc.syncQueue, oldest first
  \* the provider
  providerStops,       \* number of successful LBProvider.Stop calls
  \* the queue worker goroutine(s) running sync
  wpc,                 \* position of each worker
  wkey,                \* key the worker dequeued
  wreq,                \* sync's local variable requeue
  win,                 \* what GetLBConfigs met in this sync: [fault, label]
  wapply,              \* ApplyConfig calls made by the tick: "none", "ok", "err"
  wspawn,              \* TRUE when the tick started a requeue goroutine
  wclosed,             \* TRUE when stopCh was closed before the tick was dequeued
  \* detached requeue goroutines
  rq,                  \* position and local copy of the counter
  spawned,             \* number of requeue goroutines started so far
  failures,            \* number of failed GetLBConfigs / ApplyConfig so far
  \* Stop callers
  spc,                 \* position of each Stop call
  sret,                \* what the Stop call returned
  sdid,                \* what the Stop call did: "provider", "close", "flag"
  safter,              \* TRUE when the call began after a completed shutdown
  \* history
  trig,                \* ScheduleApplyConfig calls while the current tick runs
  consec,              \* consecutive failed ticks since a success or startup
  \* BuildConfigFromMetadata
  bpc,                 \* "off", "rules" (in the loop over the rules), "done"
  bin,                 \* the build's input: [rules, pref]
  bidx,                \* index of the next rule of lbMeta.PortRules
  frontendsMap,        \* name -> frontend, its backends as keys of allBe
  allBe,               \* pathUUID -> backend
  allEps,              \* pathUUID -> the IPs of the backend's endpoints
  bout,                \* the frontends of the config the build returned
  bruns,               \* number of finished builds
  bprev,               \* what the previous build returned
  \* processSelector
  sel,                 \* its input: [rules, fault, blank, src]
  selpc,               \* "off", "start", "done"
  selret,              \* "none", "nil", "err"
  lbMeta,              \* lbMeta.PortRules
  \* GetService
  lk,                  \* its input: [link, region, src]
  lkpc,                \* "off", "start", "done"
  lkout,               \* the fetch it made: [fetch, args]
  \* getServiceEndpoints
  rin,                 \* its input: [link, snapshot]
  rpc,                 \* "off", "run", "done"
  rstack,              \* the calls in progress: a stack of frames
  reps                 \* the endpoints collected so far

loopVars == <<shutdown, stopCh, incrementalBackoff, syncQueue, providerStops,
              wpc, wkey, wreq, win, wapply, wspawn,
              wclosed, rq, spawned, failures, spc, sret, sdid, safter,
              trig, consec>>

buildVars == <<bpc, bin, bidx, frontendsMap, allBe, allEps, bout, bruns, bprev>>

selVars == <<sel, selpc, selret, lbMeta>>

linkVars == <<lk, lkpc, lkout>>

resolveVars == <<rin, rpc, rstack, reps>>

auxVars == <<linkVars, resolveVars>>

vars == <<loopVars, buildVars, selVars, auxVars>>

NoInput == [fault |-> "none", label |-> NoLabel]

\* ------------------------------------------------------------------------
\* The task queue (utils.TaskQueue): a coalescing queue of keys
\* ------------------------------------------------------------------------

InQueue(q, key) == \E i \in 1..Len(q) : q[i] = key

\* Enqueue / Requeue: a key that is already pending is not added again
QueueAdd(q, key) == IF InQueue(q, key) THEN q ELSE Append(q, key)

\* ------------------------------------------------------------------------
\* GetLBConfigs: "ok" (one config) or "err"
\* ------------------------------------------------------------------------

\* a GetLBConfigs that accepts any value of the target label
GetLBConfigs_noLabelCheck(in) ==
  IF in.fault = "GetSelfService" THEN "err"
  ELSE IF in.label # NoLabel /\ in.fault = "GetSelfHostUUID" THEN "err"
  ELSE IF in.fault \in {"FetchCertificates", "ProcessCustomConfig"} THEN "err"
  ELSE "ok"

\* GetLBConfigs: GetSelfService, CollectLBMetadata, the target label and
\* GetSelfHostUUID, then BuildConfigFromMetadata
GetLBConfigs(in) ==
  IF in.fault = "GetSelfService" THEN "err"
  ELSE IF in.label # NoLabel /\ in.fault = "GetSelfHostUUID" THEN "err"
  ELSE IF in.label # NoLabel /\ in.label \notin ValidTargets THEN "err"
  ELSE IF in.fault \in {"FetchCertificates", "ProcessCustomConfig"} THEN "err"
  ELSE "ok"

\* ------------------------------------------------------------------------
\* Init
\* ------------------------------------------------------------------------

LoopInit ==
  /\ shutdown = FALSE
  /\ stopCh = 0
  /\ incrementalBackoff = 0
  /\ syncQueue = <<>>
  /\ providerStops = 0
  /\ wpc = [w \in SyncWorkers |-> "idle"]
  /\ wkey = [w \in SyncWorkers |-> ""]
  /\ wreq = [w \in SyncWorkers |-> FALSE]
  /\ win = [w \in SyncWorkers |-> NoInput]
  /\ wapply = [w \in SyncWorkers |-> "none"]
  /\ wspawn = [w \in SyncWorkers |-> FALSE]
  /\ wclosed = [w \in SyncWorkers |-> FALSE]
  /\ rq = [r \in RequeueIds |-> [pc |-> "none", val |-> 0, key |-> ""]]
  /\ spawned = 0
  /\ failures = 0
  /\ spc = [c \in StopCallers |-> "idle"]
  /\ sret = [c \in StopCallers |-> "none"]
  /\ sdid = [c \in StopCallers |-> {}]
  /\ safter = [c \in StopCallers |-> FALSE]
  /\ trig = 0
  /\ consec = 0

BuildIdle ==
  /\ bpc = "off"
  /\ bin = <<>>
  /\ bidx = 0
  /\ frontendsMap = <<>>
  /\ allBe = <<>>
  /\ allEps = <<>>
  /\ bout = <<>>
  /\ bruns = 0
  /\ bprev = <<>>

SelIdle ==
  /\ sel = <<>>
  /\ selpc = "off"
  /\ selret = "none"
  /\ lbMeta = <<>>

AuxIdle ==
  /\ lk = <<>>
  /\ lkpc = "off"
  /\ lkout = <<>>
  /\ rin = <<>>
  /\ rpc = "off"
  /\ rstack = <<>>
  /\ reps = <<>>

Init == LoopInit /\ BuildIdle /\ SelIdle /\ AuxIdle

\* ------------------------------------------------------------------------
\* Triggers
\* ------------------------------------------------------------------------

stopVars == <<shutdown, stopCh, providerStops, spc, sret,
              sdid, safter>>

tickVars == <<wpc, wkey, wreq, win, wapply, wspawn, wclosed>>

Min(a, b) == IF a < b THEN a ELSE b

\* a ScheduleApplyConfig that enqueues the argument of the callback
ScheduleApplyConfig_argKey(arg) ==
  /\ syncQueue' = QueueAdd(syncQueue, arg)
  /\ trig' = IF \E w \in SyncWorkers : wpc[w] \notin {"idle", "exited"}
               THEN Min(trig + 1, MaxTriggers) ELSE trig
  /\ UNCHANGED <<stopVars, tickVars, incrementalBackoff, rq, spawned, failures,
                 consec, buildVars, selVars, auxVars>>

\* ScheduleApplyConfig(string): the callback of MetaFetcher.OnChange and of
\* CertFetcher.LookForCertUpdates; enqueues the controller's name
ScheduleApplyConfig(arg) ==
  /\ syncQueue' = QueueAdd(syncQueue, GetName)
  /\ trig' = IF \E w \in SyncWorkers : wpc[w] \notin {"idle", "exited"}
               THEN Min(trig + 1, MaxTriggers) ELSE trig
  /\ UNCHANGED <<stopVars, tickVars, incrementalBackoff, rq, spawned, failures,
                 consec, buildVars, selVars, auxVars>>

\* ------------------------------------------------------------------------
\* The queue worker: dequeue, sync(key), done
\* ------------------------------------------------------------------------

\* the worker takes the oldest pending key and calls sync with it
Dequeue(w) ==
  /\ wpc[w] = "idle"
  /\ syncQueue # <<>>
  /\ wkey' = [wkey EXCEPT ![w] = Head(syncQueue)]
  /\ syncQueue' = Tail(syncQueue)
  /\ wpc' = [wpc EXCEPT ![w] = "sync"]
  /\ wclosed' = [wclosed EXCEPT ![w] = (stopCh > 0)]
  /\ UNCHANGED <<stopVars, wreq, win, wapply, wspawn, incrementalBackoff, rq,
                 spawned, failures, trig, consec, buildVars, selVars, auxVars>>

\* closing the stop channel terminates the queue worker
WorkerExit(w) ==
  /\ wpc[w] = "idle"
  /\ stopCh > 0
  /\ wpc' = [wpc EXCEPT ![w] = "exited"]
  /\ UNCHANGED <<stopVars, wkey, wreq, win, wapply, wspawn, wclosed, syncQueue,
                 incrementalBackoff, rq, spawned, failures, trig, consec,
                 buildVars, selVars, auxVars>>

\* sync: if lbc.shutdown { return }; requeue := false
syncCheck(w) ==
  /\ wpc[w] = "sync"
  /\ IF shutdown
       THEN wpc' = [wpc EXCEPT ![w] = "done"]
       ELSE wpc' = [wpc EXCEPT ![w] = "getcfg"]
  /\ wreq' = [wreq EXCEPT ![w] = FALSE]
  /\ UNCHANGED <<stopVars, wkey, win, wapply, wspawn, wclosed, syncQueue,
                 incrementalBackoff, rq, spawned, failures, trig, consec,
                 buildVars, selVars, auxVars>>

\* sync: cfgs, err := lbc.GetLBConfigs(); on error requeue = true
syncGetLBConfigs(w) ==
  /\ wpc[w] = "getcfg"
  /\ \E in \in [fault : Faults, label : TargetLabels] :
       /\ GetLBConfigs(in) = "err" => failures < MaxFailures
       /\ win' = [win EXCEPT ![w] = in]
       /\ IF GetLBConfigs(in) = "err"
            THEN /\ wreq' = [wreq EXCEPT ![w] = TRUE]
                 /\ failures' = failures + 1
                 /\ wpc' = [wpc EXCEPT ![w] = "end"]
            ELSE /\ wpc' = [wpc EXCEPT ![w] = "apply"]
                 /\ UNCHANGED <<wreq, failures>>
  /\ UNCHANGED <<stopVars, wkey, wapply, wspawn, wclosed, syncQueue,
                 incrementalBackoff, rq, spawned, trig, consec, buildVars, selVars, auxVars>>

\* sync: LBProvider.ApplyConfig(cfg) for the one config GetLBConfigs returned;
\* on error requeue = true
syncApplyConfig(w) ==
  /\ wpc[w] = "apply"
  /\ \E ok \in BOOLEAN :
       /\ ~ok => failures < MaxFailures
       /\ wapply' = [wapply EXCEPT ![w] = IF ok THEN "ok" ELSE "err"]
       /\ wreq' = [wreq EXCEPT ![w] = IF ok THEN wreq[w] ELSE TRUE]
       /\ failures' = IF ok THEN failures ELSE failures + 1
  /\ wpc' = [wpc EXCEPT ![w] = "end"]
  /\ UNCHANGED <<stopVars, wkey, win, wspawn, wclosed, syncQueue,
                 incrementalBackoff, rq, spawned, trig, consec, buildVars, selVars, auxVars>>

\* sync: if requeue { go lbc.requeue(key) } else { lbc.incrementalBackoff = 0 }
syncEnd(w) ==
  /\ wpc[w] = "end"
  /\ wpc' = [wpc EXCEPT ![w] = "done"]
  /\ IF wreq[w]
       THEN /\ rq' = [rq EXCEPT ![spawned + 1] =
                        [pc |-> "start", val |-> 0, key |-> wkey[w]]]
            /\ spawned' = spawned + 1
            /\ wspawn' = [wspawn EXCEPT ![w] = TRUE]
            /\ consec' = consec + 1
            /\ UNCHANGED incrementalBackoff
       ELSE /\ incrementalBackoff' = 0
            /\ consec' = 0
            /\ UNCHANGED <<rq, spawned, wspawn>>
  /\ win' = [win EXCEPT ![w] = NoInput]
  /\ UNCHANGED <<stopVars, wkey, wreq, wapply, wclosed, syncQueue,
                 failures, trig, buildVars, selVars, auxVars>>

\* sync has returned: the worker marks the key done and waits for the next
TaskDone(w) ==
  /\ wpc[w] = "done"
  /\ wpc' = [wpc EXCEPT ![w] = "idle"]
  /\ wkey' = [wkey EXCEPT ![w] = ""]
  /\ wreq' = [wreq EXCEPT ![w] = FALSE]
  /\ win' = [win EXCEPT ![w] = NoInput]
  /\ wapply' = [wapply EXCEPT ![w] = "none"]
  /\ wspawn' = [wspawn EXCEPT ![w] = FALSE]
  /\ wclosed' = [wclosed EXCEPT ![w] = FALSE]
  /\ trig' = 0
  /\ UNCHANGED <<stopVars, syncQueue, incrementalBackoff, rq, spawned,
                 failures, consec, buildVars, selVars, auxVars>>

\* ------------------------------------------------------------------------
\* requeue(key), run as a detached goroutine
\* ------------------------------------------------------------------------

\* lbc.incrementalBackoff = lbc.incrementalBackoff + interval: the read
requeueRead(r) ==
  /\ rq[r].pc = "start"
  /\ rq' = [rq EXCEPT ![r].pc = "read", ![r].val = incrementalBackoff]
  /\ UNCHANGED <<stopVars, tickVars, syncQueue, incrementalBackoff, spawned,
                 failures, trig, consec, buildVars, selVars, auxVars>>

\* lbc.incrementalBackoff = lbc.incrementalBackoff + interval: the write
requeueWrite(r) ==
  /\ rq[r].pc = "read"
  /\ incrementalBackoff' = rq[r].val + incrementalBackoffInterval
  /\ rq' = [rq EXCEPT ![r].pc = "sleep", ![r].val = 0]
  /\ UNCHANGED <<stopVars, tickVars, syncQueue, spawned, failures, trig,
                 consec, buildVars, selVars, auxVars>>

\* a requeue that sleeps and never puts the key back
requeueEnqueue_lost(r) ==
  /\ rq[r].pc = "sleep"
  /\ rq' = [rq EXCEPT ![r].pc = "gone"]
  /\ UNCHANGED <<stopVars, tickVars, syncQueue, incrementalBackoff, spawned,
                 failures, trig, consec, buildVars, selVars, auxVars>>

\* time.Sleep(incrementalBackoff seconds); lbc.syncQueue.Requeue(key, err)
requeueEnqueue(r) ==
  /\ rq[r].pc = "sleep"
  /\ syncQueue' = QueueAdd(syncQueue, rq[r].key)
  /\ rq' = [rq EXCEPT ![r].pc = "gone"]
  /\ UNCHANGED <<stopVars, tickVars, incrementalBackoff, spawned, failures,
                 trig, consec, buildVars, selVars, auxVars>>

\* ------------------------------------------------------------------------
\* Stop
\* ------------------------------------------------------------------------

loopRest == <<tickVars, syncQueue, incrementalBackoff, rq, spawned, failures,
              trig, consec, buildVars, selVars, auxVars>>

AllStopSteps == {"provider", "close", "flag"}

\* some earlier call of Stop has returned after completing the shutdown
ShutdownCompleted ==
  \E c \in StopCallers : spc[c] = "ret" /\ sdid[c] = AllStopSteps

\* a Stop that does not look at lbc.shutdown
StopRead_noCheck(c) ==
  /\ spc[c] = "idle"
  /\ safter' = [safter EXCEPT ![c] = ShutdownCompleted]
  /\ spc' = [spc EXCEPT ![c] = "provider"]
  /\ UNCHANGED <<shutdown, stopCh, providerStops, sdid,
                 sret, loopRest>>

\* Stop: if !lbc.shutdown {...}; return "shutdown already in progress"
StopRead(c) ==
  /\ spc[c] = "idle"
  /\ safter' = [safter EXCEPT ![c] = ShutdownCompleted]
  /\ IF shutdown
       THEN /\ spc' = [spc EXCEPT ![c] = "ret"]
            /\ sret' = [sret EXCEPT ![c] = "shutdown already in progress"]
       ELSE /\ spc' = [spc EXCEPT ![c] = "provider"]
            /\ UNCHANGED sret
  /\ UNCHANGED <<shutdown, stopCh, providerStops, sdid,
                 loopRest>>

\* Stop: if err := lbc.LBProvider.Stop(); err != nil { return err }
StopProvider(c) ==
  /\ spc[c] = "provider"
  /\ \E ok \in BOOLEAN :
       IF ok
         THEN /\ providerStops' = providerStops + 1
              /\ sdid' = [sdid EXCEPT ![c] = @ \cup {"provider"}]
              /\ spc' = [spc EXCEPT ![c] = "close"]
              /\ UNCHANGED sret
         ELSE /\ sret' = [sret EXCEPT ![c] = "provider error"]
              /\ spc' = [spc EXCEPT ![c] = "ret"]
              /\ UNCHANGED <<providerStops, sdid>>
  /\ UNCHANGED <<shutdown, stopCh, safter, loopRest>>

\* Stop: close(lbc.stopCh)
StopClose(c) ==
  /\ spc[c] = "close"
  /\ stopCh' = stopCh + 1
  /\ sdid' = [sdid EXCEPT ![c] = @ \cup {"close"}]
  /\ spc' = [spc EXCEPT ![c] = "flag"]
  /\ UNCHANGED <<shutdown, providerStops, sret,
                 safter, loopRest>>

\* a Stop whose first successful call returns nil
StopSetFlag_nil(c) ==
  /\ spc[c] = "flag"
  /\ shutdown' = TRUE
  /\ sdid' = [sdid EXCEPT ![c] = @ \cup {"flag"}]
  /\ sret' = [sret EXCEPT ![c] = "nil"]
  /\ spc' = [spc EXCEPT ![c] = "ret"]
  /\ UNCHANGED <<stopCh, providerStops, safter,
                 loopRest>>

\* Stop: lbc.shutdown = true; return "shutdown already in progress"
StopSetFlag(c) ==
  /\ spc[c] = "flag"
  /\ shutdown' = TRUE
  /\ sdid' = [sdid EXCEPT ![c] = @ \cup {"flag"}]
  /\ sret' = [sret EXCEPT ![c] = "shutdown already in progress"]
  /\ spc' = [spc EXCEPT ![c] = "ret"]
  /\ UNCHANGED <<stopCh, providerStops, safter,
                 loopRest>>

\* ------------------------------------------------------------------------
\* The reconcile loop
\* ------------------------------------------------------------------------

Next ==
  \/ \E arg \in TriggerArgs : ScheduleApplyConfig(arg)
  \/ \E w \in SyncWorkers : Dequeue(w)
  \/ \E w \in SyncWorkers : WorkerExit(w)
  \/ \E w \in SyncWorkers : syncCheck(w)
  \/ \E w \in SyncWorkers : syncGetLBConfigs(w)
  \/ \E w \in SyncWorkers : syncApplyConfig(w)
  \/ \E w \in SyncWorkers : syncEnd(w)
  \/ \E w \in SyncWorkers : TaskDone(w)
  \/ \E r \in RequeueIds : requeueRead(r)
  \/ \E r \in RequeueIds : requeueWrite(r)
  \/ \E r \in RequeueIds : requeueEnqueue(r)
  \/ \E c \in StopCallers : StopRead(c)
  \/ \E c \in StopCallers : StopProvider(c)
  \/ \E c \in StopCallers : StopClose(c)
  \/ \E c \in StopCallers : StopSetFlag(c)

Spec == Init /\ [][Next]_vars

TypeOK ==
  /\ shutdown \in BOOLEAN
  /\ stopCh \in 0..MaxStopCalls
  /\ incrementalBackoff \in 0..(MaxFailures * incrementalBackoffInterval)
  /\ Len(syncQueue) <= Cardinality(TriggerArgs) + 1
  /\ spawned \in 0..MaxFailures
  /\ failures \in 0..MaxFailures
  /\ trig \in 0..MaxTriggers
  /\ consec \in 0..MaxFailures

\* The reconcile loop with a single call of Stop
LiveNext ==
  \/ \E arg \in TriggerArgs : ScheduleApplyConfig(arg)
  \/ \E w \in SyncWorkers : Dequeue(w)
  \/ \E w \in SyncWorkers : WorkerExit(w)
  \/ \E w \in SyncWorkers : syncCheck(w)
  \/ \E w \in SyncWorkers : syncGetLBConfigs(w)
  \/ \E w \in SyncWorkers : syncApplyConfig(w)
  \/ \E w \in SyncWorkers : syncEnd(w)
  \/ \E w \in SyncWorkers : TaskDone(w)
  \/ \E r \in RequeueIds : requeueRead(r)
  \/ \E r \in RequeueIds : requeueWrite(r)
  \/ \E r \in RequeueIds : requeueEnqueue(r)
  \/ StopRead(1)
  \/ StopProvider(1)
  \/ StopClose(1)
  \/ StopSetFlag(1)

\* the scheduler runs every runnable goroutine: the queue worker and the
\* detached requeue goroutines (whose sleep is finite) keep taking steps;
\* nothing forces a trigger, a Stop call or a failure
FairSpec ==
  /\ Init
  /\ [][LiveNext]_vars
  /\ \A w \in SyncWorkers :
       /\ WF_vars(Dequeue(w))
       /\ WF_vars(syncCheck(w))
       /\ WF_vars(syncGetLBConfigs(w))
       /\ WF_vars(syncApplyConfig(w))
       /\ WF_vars(syncEnd(w))
       /\ WF_vars(TaskDone(w))
  /\ \A r \in RequeueIds :
       /\ WF_vars(requeueRead(r))
       /\ WF_vars(requeueWrite(r))
       /\ WF_vars(requeueEnqueue(r))

\* ------------------------------------------------------------------------
\* Properties of the reconcile loop
\* ------------------------------------------------------------------------

\* positions of a worker inside GetLBConfigs .. ApplyConfig .. end of sync
InTick == {"getcfg", "apply", "end"}

TickRunning == \E w \in SyncWorkers : wpc[w] \in {"sync", "done"} \cup InTick

C2_Coalescing ==
  /\ Len(syncQueue) <= 1
  /\ (TickRunning /\ trig >= 1) => Len(syncQueue) = 1

\* two or more ScheduleApplyConfig calls arrived while a tick was applying
C2_Witness ==
  /\ \E w \in SyncWorkers : wpc[w] = "apply"
  /\ trig >= 2
  /\ syncQueue = <<GetName>>

\* no requeue goroutine is between its start and its write of the counter
RequeueQuiet == \A r \in RequeueIds : rq[r].pc \notin {"start", "read"}

\* C3: after k consecutive failed ticks following a success or startup the
\* backoff counter is 5 * k (0 after a successful tick), once every requeue
\* goroutine that was started has added its step.
C3_BackoffTracksFailures ==
  RequeueQuiet => incrementalBackoff = incrementalBackoffInterval * consec

\* C4: a tick dequeued after Stop closed the stop channel does no work: it
\* reaches neither GetLBConfigs nor ApplyConfig nor the requeue.
C4_NoWorkAfterClose ==
  \A w \in SyncWorkers : wclosed[w] => wpc[w] \notin InTick

BadInput(in) ==
  \/ in.fault \in {"GetSelfService", "FetchCertificates", "ProcessCustomConfig"}
  \/ in.label # NoLabel /\ in.fault = "GetSelfHostUUID"
  \/ in.label # NoLabel /\ in.label \notin {"any", "only-local", "prefer-local"}

FailedTick == \E w \in SyncWorkers : wpc[w] = "done" /\ wspawn[w]

TickStarted == \E w \in SyncWorkers : wpc[w] = "sync"

ApplySucceeded == \E w \in SyncWorkers : wpc[w] = "end" /\ wapply[w] = "ok"

\* C7: unless the stop channel gets closed, a failed tick is eventually
\* followed by another tick, and once no further failure occurs by a
\* successful ApplyConfig.
C7_RetryUntilSuccess ==
  /\ FailedTick ~> (TickStarted \/ stopCh > 0)
  /\ (FailedTick /\ failures = MaxFailures) ~> (ApplySucceeded \/ stopCh > 0)

\* ApplyConfig succeeded after failed ticks whose requeue goroutines ran
C7_Witness ==
  /\ ApplySucceeded
  /\ failures = MaxFailures
  /\ \A r \in RequeueIds : rq[r].pc = "gone"
  /\ stopCh = 0

\* ========================================================================
\* BuildConfigFromMetadata
\* ========================================================================

\* number of port rules in an LBMetadata
MaxRules == 2

\* ------------------------------------------------------------------------
\* Strings are sequences of one-character strings
\* ------------------------------------------------------------------------

Digit == <<"0", "1", "2", "3", "4", "5", "6", "7", "8", "9">>

RECURSIVE NatStr(_)
NatStr(n) ==
  IF n < 10 THEN <<Digit[n + 1]>>
  ELSE NatStr(n \div 10) \o <<Digit[(n % 10) + 1]>>

\* strconv.Itoa
Itoa(n) == IF n < 0 THEN <<"-">> \o NatStr(0 - n) ELSE NatStr(n)

\* the characters [A-Za-z0-9] that occur in the model's strings
Alnum == {Digit[i] : i \in 1..10} \cup {"a", "b", "c", "x", "B", "E"}

RECURSIVE SkipNonAlnum(_)
SkipNonAlnum(s) ==
  IF s = <<>> THEN s
  ELSE IF Head(s) \in Alnum THEN s ELSE SkipNonAlnum(Tail(s))

\* regexp.Compile("[^A-Za-z0-9]+").ReplaceAllString(s, "_"): every maximal
\* run of non-alphanumeric characters becomes one "_"
RECURSIVE ReplaceAllString(_)
ReplaceAllString(s) ==
  IF s = <<>> THEN s
  ELSE IF Head(s) \in Alnum THEN <<Head(s)>> \o ReplaceAllString(Tail(s))
  ELSE <<"_">> \o ReplaceAllString(SkipNonAlnum(Tail(s)))

\* strings.ToLower on the words the code compares with strings.EqualFold
ToLower(w) ==
  CASE w = "HTTP" -> "http"
    [] w = "HTTPS" -> "https"
    [] w = "SNI" -> "sni"
    [] w = "Inactive" -> "inactive"
    [] w = "Running" -> "running"
    [] w = "DnsService" -> "dnsservice"
    [] w = "dnsService" -> "dnsservice"
    [] w = "externalService" -> "externalservice"
    [] OTHER -> w

\* strings.EqualFold
EqualFold(a, b) == ToLower(a) = ToLower(b)

\* byte order of the characters that occur in the model's strings
CharOrder == <<"*", "-", ".", "/", "0", "1", "2", "3", "4", "5", "6", "7", "8",
               "9", "B", "E", "_", "a", "b", "c", "x">>

CharRank(c) == CHOOSE i \in 1..Len(CharOrder) : CharOrder[i] = c

\* a < b for strings (byte-wise)
RECURSIVE StrLess(_, _)
StrLess(a, b) ==
  IF b = <<>> THEN FALSE
  ELSE IF a = <<>> THEN TRUE
  ELSE IF Head(a) = Head(b) THEN StrLess(Tail(a), Tail(b))
  ELSE CharRank(Head(a)) < CharRank(Head(b))

\* ------------------------------------------------------------------------
\* The metadata snapshot the MetadataFetcher answers from
\* ------------------------------------------------------------------------

NewContainer(name, ip, state, host) ==
  [Name |-> name, PrimaryIp |-> ip, State |-> state, HostUUID |-> host,
   EnvironmentUUID |-> "env1", HealthCheck |-> "hc-" \o name]

\* var linkedService metadata.Service: the zero value
ZeroService ==
  [Name |-> "", Kind |-> "", State |-> "", Containers |-> <<>>,
   ExternalIps |-> <<>>, Hostname |-> "", Links |-> {}, HealthCheck |-> ""]

ZeroContainer ==
  [Name |-> "", PrimaryIp |-> "", State |-> "", HostUUID |-> "",
   EnvironmentUUID |-> "", HealthCheck |-> ""]

Containers ==
  <<NewContainer("web1", "10.0.0.1", "running", "host1"),
    NewContainer("web2", "10.0.0.2", "Running", "host2"),
    NewContainer("web3", "10.0.0.7", "stopped", "host1"),
    NewContainer("api1", "10.0.0.3", "starting", "host2"),
    NewContainer("api2", "10.0.0.2", "running", "host2"),
    NewContainer("old1", "10.0.0.4", "running", "host1"),
    NewContainer("api3", "10.0.0.5", "stopping", "host1")>>

ServiceWeb ==
  [Name |-> "web", Kind |-> "service", State |-> "active",
   Containers |-> SubSeq(Containers, 1, 3), ExternalIps |-> <<>>,
   Hostname |-> "", Links |-> {}, HealthCheck |-> "hc-web"]

ServiceApi ==
  [Name |-> "api", Kind |-> "service", State |-> "active",
   Containers |-> SubSeq(Containers, 4, 5) \o SubSeq(Containers, 7, 7),
   ExternalIps |-> <<>>,
   Hostname |-> "", Links |-> {}, HealthCheck |-> "hc-api"]

ServiceOld ==
  [Name |-> "old", Kind |-> "service", State |-> "Inactive",
   Containers |-> SubSeq(Containers, 6, 6), ExternalIps |-> <<>>,
   Hostname |-> "", Links |-> {}, HealthCheck |-> ""]

ServiceExt ==
  [Name |-> "ext", Kind |-> "externalService", State |-> "active",
   Containers |-> <<>>, ExternalIps |-> <<"10.0.0.9", "10.0.0.1">>,
   Hostname |-> "ext.example", Links |-> {}, HealthCheck |-> ""]

ServiceAlias ==
  [Name |-> "alias", Kind |-> "dnsService", State |-> "active",
   Containers |-> <<>>, ExternalIps |-> <<>>, Hostname |-> "",
   Links |-> {"stackA/web", "stackA/ext", "stackA/gone"}, HealthCheck |-> ""]

\* an external service whose hostname is written as an address literal
ServiceLit ==
  [Name |-> "lit", Kind |-> "externalService", State |-> "active",
   Containers |-> <<>>, ExternalIps |-> <<>>, Hostname |-> "10.0.0.1",
   Links |-> {}, HealthCheck |-> ""]

ServiceAlias2 ==
  [Name |-> "alias2", Kind |-> "dnsService", State |-> "active",
   Containers |-> <<>>, ExternalIps |-> <<>>, Hostname |-> "",
   Links |-> {"stackA/web", "stackA/lit"}, HealthCheck |-> ""]

\* a dnsService with a link to the inactive service
ServiceAlias3 ==
  [Name |-> "alias3", Kind |-> "dnsService", State |-> "active",
   Containers |-> <<>>, ExternalIps |-> <<>>, Hostname |-> "",
   Links |-> {"stackA/api", "stackA/old"}, HealthCheck |-> ""]

\* a service as the selector expansion reads it: with its stack, its labels
\* and the port rules of its own LBConfig
NewLabelledService(stack, name, labels, portRules, containers) ==
  [Name |-> name, Kind |-> "service", State |-> "active",
   Containers |-> containers, ExternalIps |-> <<>>, Hostname |-> "",
   Links |-> {}, HealthCheck |-> "", StackName |-> stack, Labels |-> labels,
   PortRules |-> portRules]

NoLabels == [x \in {} |-> ""]

\* the services of the controller's environment (GetServices)
SvcB ==
  NewLabelledService("stackB", "svcB", NoLabels, <<>>,
    <<NewContainer("b1", "172.17.0.9", "running", ""),
      NewContainer("b2", "172.17.0.10", "running", "")>>)

SvcL ==
  NewLabelledService("stackB", "svcL", [app |-> "web"],
    <<[SourcePort |-> 8081, Protocol |-> "tcp", Hostname |-> <<"a">>,
       Path |-> <<>>, Service |-> "", Container |-> "", TargetPort |-> 8081,
       BackendName |-> <<>>, Priority |-> 5, Weight |-> "7"],
      [SourcePort |-> 8082, Protocol |-> "http", Hostname |-> <<"b">>,
       Path |-> <<"/", "x">>, Service |-> "", Container |-> "",
       TargetPort |-> 8082, BackendName |-> <<"B">>, Priority |-> 6,
       Weight |-> "8"]>>,
    <<NewContainer("l1", "172.17.0.11", "running", "")>>)

\* the service of the peer environment bar
Drone ==
  NewLabelledService("stackC", "drone", [foo |-> "bar"], <<>>,
    <<NewContainer("d1", "172.17.0.8", "running", "")>>)

\* the services of environment alpha in region2
SvcX ==
  NewLabelledService("stackX", "svcX", [foo |-> "bar"], <<>>,
    <<NewContainer("x1", "173.17.0.18", "running", ""),
      NewContainer("x2", "173.17.0.19", "running", "")>>)

SvcY ==
  NewLabelledService("stackY", "svcY", NoLabels, <<>>,
    <<NewContainer("y1", "173.17.0.20", "running", "")>>)

\* the region of the controller
selfRegion == "region1"

\* the links of the snapshot; "stackA/gone" names no service
ServiceLinks ==
  {"stackA/web", "stackA/api", "stackA/old", "stackA/ext", "stackA/alias",
   "stackA/lit", "stackA/alias2", "stackA/alias3", "stackA/gone"}

\* RMetaFetcher.GetService: never nil; the zero service when there is none
GetService(link) ==
  CASE link = "stackA/web" -> ServiceWeb
    [] link = "stackA/api" -> ServiceApi
    [] link = "stackA/old" -> ServiceOld
    [] link = "stackA/ext" -> ServiceExt
    [] link = "stackA/alias" -> ServiceAlias
    [] link = "stackA/lit" -> ServiceLit
    [] link = "stackA/alias2" -> ServiceAlias2
    [] link = "stackA/alias3" -> ServiceAlias3
    [] link = "stackB/svcB" -> SvcB
    [] link = "stackB/svcL" -> SvcL
    [] link = "bar/stackC/drone" -> Drone
    [] link = "region1/bar/stackC/drone" -> Drone
    [] link = "region2/alpha/stackX/svcX" -> SvcX
    [] link = "region2/alpha/stackY/svcY" -> SvcY
    [] OTHER -> ZeroService

\* RMetaFetcher.GetContainer: the container of that environment and name, or
\* the zero container
GetContainer(envUUID, containerName) ==
  IF \E i \in 1..Len(Containers) :
       /\ EqualFold(Containers[i].EnvironmentUUID, envUUID)
       /\ EqualFold(Containers[i].Name, containerName)
  THEN Containers[CHOOSE i \in 1..Len(Containers) :
         /\ EqualFold(Containers[i].EnvironmentUUID, envUUID)
         /\ EqualFold(Containers[i].Name, containerName)
         /\ \A j \in 1..(i - 1) :
              ~(/\ EqualFold(Containers[j].EnvironmentUUID, envUUID)
                /\ EqualFold(Containers[j].Name, containerName))]
  ELSE ZeroContainer

\* IsActiveService
IsActiveService(svc) ==
  \A state \in {"inactive", "deactivating", "removed", "removing"} :
    ~EqualFold(svc.State, state)

\* ------------------------------------------------------------------------
\* Endpoints
\* ------------------------------------------------------------------------

\* hashIP: the hex sha1 of the address, one value per address
hashIP(ip) == "sha1-" \o ip

\* the addresses of the snapshot in byte order
IPOrder == <<"10.0.0.1", "10.0.0.2", "10.0.0.3", "10.0.0.4", "10.0.0.5",
             "10.0.0.7",
             "10.0.0.9", "172.17.0.10", "172.17.0.11", "172.17.0.8",
             "172.17.0.9", "173.17.0.18", "173.17.0.19", "173.17.0.20",
             "ext.example">>

IPRank(ip) == CHOOSE i \in 1..Len(IPOrder) : IPOrder[i] = ip

\* config.Endpoints.Less: by IP, then by Port
EndpointLess(a, b) ==
  \/ IPRank(a.IP) < IPRank(b.IP)
  \/ a.IP = b.IP /\ a.Port < b.Port

RECURSIVE InsertEndpoint(_, _)
InsertEndpoint(sorted, ep) ==
  IF sorted = <<>> THEN <<ep>>
  ELSE IF EndpointLess(ep, sorted[Len(sorted)])
       THEN Append(InsertEndpoint(SubSeq(sorted, 1, Len(sorted) - 1), ep),
                   sorted[Len(sorted)])
       ELSE Append(sorted, ep)

\* sort.Sort(eps): insertion sort, as sort.Sort does for short slices
RECURSIVE SortEndpoints(_)
SortEndpoints(eps) ==
  IF eps = <<>> THEN eps
  ELSE InsertEndpoint(SortEndpoints(SubSeq(eps, 1, Len(eps) - 1)),
                      eps[Len(eps)])

\* getContainerEndpoint: [ep, contingency]; ep is <<endpoint>>, or <<>> (nil)
\* for a container that is neither running nor starting
getContainerEndpoint(c, targetPort, selfHostUUID, localServicePreference) ==
  IF EqualFold(c.State, "running") \/ EqualFold(c.State, "starting")
  THEN [ep |-> <<[Name |-> hashIP(c.PrimaryIp), IP |-> c.PrimaryIp,
                  Port |-> targetPort, IsCname |-> FALSE, Weight |-> ""]>>,
        contingency |-> (/\ localServicePreference # "any"
                         /\ ~EqualFold(c.HostUUID, selfHostUUID))]
  ELSE [ep |-> <<>>, contingency |-> FALSE]

\* getContainerEndpoint of src/unnamed/part_000: a stopping container gives
\* an endpoint too, with Weight "0"
getContainerEndpoint_part000(c, targetPort, selfHostUUID, localServicePreference) ==
  IF \/ EqualFold(c.State, "running")
     \/ EqualFold(c.State, "starting")
     \/ EqualFold(c.State, "stopping")
  THEN [ep |-> <<[Name |-> hashIP(c.PrimaryIp), IP |-> c.PrimaryIp,
                  Port |-> targetPort, IsCname |-> FALSE,
                  Weight |-> IF EqualFold(c.State, "stopping")
                             THEN "0" ELSE ""]>>,
        contingency |-> (/\ localServicePreference # "any"
                         /\ ~EqualFold(c.HostUUID, selfHostUUID))]
  ELSE [ep |-> <<>>, contingency |-> FALSE]

\* the two sources of the controller; they differ in getContainerEndpoint
BuildSources == {"rancher.go", "part_000"}

\* the getContainerEndpoint of the source the running build is made from
ContainerEndpoint(c, targetPort, selfHostUUID, localServicePreference) ==
  IF bin.src = "part_000"
  THEN getContainerEndpoint_part000(c, targetPort, selfHostUUID,
                                    localServicePreference)
  ELSE getContainerEndpoint(c, targetPort, selfHostUUID,
                            localServicePreference)

\* the endpoints of the containers, in order, whose contingency flag is flag
RECURSIVE ContainerEndpoints(_, _, _, _, _)
ContainerEndpoints(cs, targetPort, selfHostUUID, localServicePreference, flag) ==
  IF cs = <<>> THEN <<>>
  ELSE LET r == ContainerEndpoint(Head(cs), targetPort, selfHostUUID,
                                     localServicePreference)
           rest == ContainerEndpoints(Tail(cs), targetPort, selfHostUUID,
                                      localServicePreference, flag)
       IN IF r.contingency = flag THEN r.ep \o rest ELSE rest

\* a getRegularServiceEndpoints that falls back whenever eps is empty
getRegularServiceEndpoints_anyFallback(svc, targetPort, selfHostUUID, localServicePreference) ==
  LET eps == ContainerEndpoints(svc.Containers, targetPort, selfHostUUID,
                                localServicePreference, FALSE)
      contingencyEps == ContainerEndpoints(svc.Containers, targetPort,
                                           selfHostUUID, localServicePreference,
                                           TRUE)
  IN IF Len(eps) = 0 THEN contingencyEps ELSE eps

\* getRegularServiceEndpoints
getRegularServiceEndpoints(svc, targetPort, selfHostUUID, localServicePreference) ==
  LET eps == ContainerEndpoints(svc.Containers, targetPort, selfHostUUID,
                                localServicePreference, FALSE)
      contingencyEps == ContainerEndpoints(svc.Containers, targetPort,
                                           selfHostUUID, localServicePreference,
                                           TRUE)
  IN IF localServicePreference = "prefer-local" /\ Len(eps) = 0
     THEN contingencyEps
     ELSE eps

\* getExternalServiceEndpoints
getExternalServiceEndpoints(svc, targetPort) ==
  [i \in 1..Len(svc.ExternalIps) |->
     [Name |-> hashIP(svc.ExternalIps[i]), IP |-> svc.ExternalIps[i],
      Port |-> targetPort, IsCname |-> FALSE, Weight |-> ""]]
  \o (IF svc.Hostname # ""
      THEN <<[Name |-> svc.Hostname, IP |-> svc.Hostname, Port |-> targetPort,
              IsCname |-> TRUE, Weight |-> ""]>>
      ELSE <<>>)

\* the orders in which "for link := range svc.Links" may visit the links
RECURSIVE Orders(_)
Orders(S) ==
  IF S = {} THEN {<<>>}
  ELSE UNION {{<<x>> \o o : o \in Orders(S \ {x})} : x \in S}

\* getServiceEndpoints, with getAliasServiceEndpoints for a dnsService visiting
\* svc.Links in the order order[svc.Name]; the result is sorted
RECURSIVE getServiceEndpoints(_, _, _, _, _)
getServiceEndpoints(svc, targetPort, selfHostUUID, localServicePreference, order) ==
  SortEndpoints(
    IF EqualFold(svc.Kind, "externalService")
    THEN getExternalServiceEndpoints(svc, targetPort)
    ELSE IF EqualFold(svc.Kind, "dnsService")
    THEN LET links == order[svc.Name]
             RECURSIVE alias(_)
             alias(i) ==
               IF i > Len(links) THEN <<>>
               ELSE getServiceEndpoints(GetService(links[i]), targetPort,
                      selfHostUUID, localServicePreference, order) \o alias(i + 1)
         IN alias(1)
    ELSE getRegularServiceEndpoints(svc, targetPort, selfHostUUID,
                                    localServicePreference))

\* one visiting order for the Links of every dnsService of the snapshot
LinkOrders ==
  {[n \in {"alias", "alias2", "alias3"} |->
      CASE n = "alias" -> o1 [] n = "alias2" -> o2 [] n = "alias3" -> o3] :
     o1 \in Orders(ServiceAlias.Links), o2 \in Orders(ServiceAlias2.Links),
     o3 \in Orders(ServiceAlias3.Links)}

\* ------------------------------------------------------------------------
\* BuildConfigFromMetadata
\* ------------------------------------------------------------------------

\* the orders that differ in the Links of the dnsService link names: the
\* Links of no other service are visited for a rule on link
LinkOrdersOf(link) ==
  {order \in LinkOrders :
     \A n \in DOMAIN order :
       n # GetService(link).Name =>
         order[n] = (CHOOSE o \in LinkOrders : TRUE)[n]}

NewRule(port, proto, host, path, svc, container, target, name, prio, weight) ==
  [SourcePort |-> port, Protocol |-> proto, Hostname |-> host, Path |-> path,
   Service |-> svc, Container |-> container, TargetPort |-> target,
   BackendName |-> name, Priority |-> prio, Weight |-> weight]

\* the port rules lbMeta.PortRules is drawn from
RuleSet ==
  { NewRule(80, "http", <<"a">>, <<>>, "stackA/web", "", 8080, <<>>, 1, "1"),
    NewRule(80, "http", <<"a", "_", "b">>, <<>>, "stackA/api", "", 8080, <<>>, 1, "2"),
    NewRule(80, "http", <<"a">>, <<"b", "_">>, "stackA/api", "", 8080, <<>>, 1, "3"),
    NewRule(80, "HTTPS", <<"*", "a", "b">>, <<"/", "x">>, "stackA/alias", "", 8080, <<>>, 2, "1"),
    NewRule(80, "http", <<"a", "b", "*">>, <<"/", "x">>, "stackA/web", "", 8080, <<>>, 1, "4"),
    NewRule(45, "tcp", <<"*", "a", "b">>, <<"/", "x">>, "stackA/ext", "", 8080, <<>>, 1, "1"),
    NewRule(45, "tcp", <<>>, <<>>, "stackA/api", "", 9090, <<>>, 1, "5"),
    NewRule(0, "http", <<"a">>, <<>>, "stackA/web", "", 8080, <<>>, 1, "1"),
    NewRule(80, "http", <<"c">>, <<>>, "stackA/old", "", 8080, <<>>, 1, "1"),
    NewRule(443, "https", <<"*", "a">>, <<>>, "", "web1", 8080, <<"B", "E">>, 2, "1"),
    NewRule(443, "https", <<>>, <<>>, "", "web3", 8080, <<>>, 1, "1"),
    NewRule(80, "http", <<"x">>, <<>>, "stackA/gone", "", 8080, <<>>, 3, "1"),
    NewRule(80, "sni", <<"c">>, <<>>, "stackA/alias2", "", 8080, <<>>, 1, "1"),
    NewRule(45, "tcp", <<>>, <<>>, "stackA/alias3", "", 8080, <<>>, 1, "1"),
    NewRule(443, "http", <<"*", "a", "*">>, <<>>, "", "web1", 8080, <<>>, 1, "1"),
    NewRule(443, "https", <<"b">>, <<>>, "", "web2", 8080, <<>>, 1, "1") }

RECURSIVE SeqsUpTo(_, _)
SeqsUpTo(S, n) ==
  IF n = 0 THEN {<<>>}
  ELSE LET shorter == SeqsUpTo(S, n - 1)
       IN shorter \cup {Append(q, x) : q \in shorter, x \in S}

\* what one build is called with: lbMeta.PortRules and
\* localServicePreference; src is the source the build is made from
BuildInputs ==
  [rules : SeqsUpTo(RuleSet, MaxRules), pref : ValidTargets, src : BuildSources]

envUUID == "env1"

selfHostUUID == "host1"

\* a loop body that drops the container endpoint of another host when a
\* locality preference is set
RuleEndpoints_localContainer(rule, localServicePreference, order) ==
  IF rule.Service # ""
  THEN LET service == GetService(rule.Service)
       IN IF ~IsActiveService(service)
          THEN [skip |-> TRUE, eps |-> <<>>, hc |-> ""]
          ELSE [skip |-> FALSE,
                eps |-> getServiceEndpoints(service, rule.TargetPort,
                          selfHostUUID, localServicePreference, order),
                hc |-> service.HealthCheck]
  ELSE LET container == GetContainer(envUUID, rule.Container)
           r == ContainerEndpoint(container, rule.TargetPort, selfHostUUID,
                                  localServicePreference)
       IN IF r.ep = <<>> \/ r.contingency
          THEN [skip |-> TRUE, eps |-> <<>>, hc |-> ""]
          ELSE [skip |-> FALSE, eps |-> r.ep, hc |-> container.HealthCheck]

\* rancher.go 265-302: the rule's endpoints and health check; skip when the
\* loop takes one of its "continue" branches
RuleEndpoints(rule, localServicePreference, order) ==
  IF rule.Service # ""
  THEN LET service == GetService(rule.Service)
       IN IF ~IsActiveService(service)
          THEN [skip |-> TRUE, eps |-> <<>>, hc |-> ""]
          ELSE [skip |-> FALSE,
                eps |-> getServiceEndpoints(service, rule.TargetPort,
                          selfHostUUID, localServicePreference, order),
                hc |-> service.HealthCheck]
  ELSE LET container == GetContainer(envUUID, rule.Container)
           r == ContainerEndpoint(container, rule.TargetPort, selfHostUUID,
                                  localServicePreference)
       IN IF r.ep = <<>>
          THEN [skip |-> TRUE, eps |-> <<>>, hc |-> ""]
          ELSE [skip |-> FALSE, eps |-> r.ep, hc |-> container.HealthCheck]

\* a normalization that strips the "*" of any hostname longer than 1
Normalize_len1(rule) ==
  LET http == \/ EqualFold(rule.Protocol, "https")
              \/ EqualFold(rule.Protocol, "http")
              \/ EqualFold(rule.Protocol, "sni")
      path == IF http THEN rule.Path ELSE <<>>
      hostname == IF http THEN rule.Hostname ELSE <<>>
  IN IF Len(hostname) > 1 /\ Head(hostname) = "*"
     THEN [hostname |-> Tail(hostname), path |-> path, comparator |-> "end"]
     ELSE IF Len(hostname) > 1 /\ hostname[Len(hostname)] = "*"
     THEN [hostname |-> SubSeq(hostname, 1, Len(hostname) - 1), path |-> path,
           comparator |-> "beg"]
     ELSE [hostname |-> hostname, path |-> path, comparator |-> "eq"]

\* rancher.go 304-320: hostname', path' and the comparator of a rule
Normalize(rule) ==
  LET http == \/ EqualFold(rule.Protocol, "https")
              \/ EqualFold(rule.Protocol, "http")
              \/ EqualFold(rule.Protocol, "sni")
      path == IF http THEN rule.Path ELSE <<>>
      hostname == IF http THEN rule.Hostname ELSE <<>>
  IN IF Len(hostname) > 2 /\ Head(hostname) = "*"
     THEN [hostname |-> Tail(hostname), path |-> path, comparator |-> "end"]
     ELSE IF Len(hostname) > 2 /\ hostname[Len(hostname)] = "*"
     THEN [hostname |-> SubSeq(hostname, 1, Len(hostname) - 1), path |-> path,
           comparator |-> "beg"]
     ELSE [hostname |-> hostname, path |-> path, comparator |-> "eq"]

\* fmt.Sprintf("%v_%s_%s", rule.SourcePort, hostname, path)
PathUUID(port, hostname, path) ==
  Itoa(port) \o <<"_">> \o hostname \o <<"_">> \o path

SetWeight(eps, weight) ==
  [i \in 1..Len(eps) |-> [eps[i] EXCEPT !.Weight = weight]]

\* rancher.go 328-335: append the endpoints whose IP the backend lacks
RECURSIVE MergeEndpoints(_, _, _, _)
MergeEndpoints(endpoints, epMap, eps, weight) ==
  IF eps = <<>> THEN [Endpoints |-> endpoints, epMap |-> epMap]
  ELSE IF Head(eps).IP \in epMap
       THEN MergeEndpoints(endpoints, epMap, Tail(eps), weight)
       ELSE MergeEndpoints(
              Append(endpoints, [Head(eps) EXCEPT !.Weight = weight]),
              epMap \cup {Head(eps).IP}, Tail(eps), weight)

\* a lookup that takes the protocol of the rule at hand
FrontendOf_ruleProtocol(st, rule) ==
  LET name == Itoa(rule.SourcePort)
  IN [Name |-> name, Port |-> rule.SourcePort, Protocol |-> rule.Protocol,
      BackendServices |-> IF name \in DOMAIN st.frontendsMap
                          THEN st.frontendsMap[name].BackendServices
                          ELSE <<>>]

\* rancher.go 251-263: the frontend of the rule's port, made if there is none
FrontendOf(st, rule) ==
  LET name == Itoa(rule.SourcePort)
  IN IF name \in DOMAIN st.frontendsMap
     THEN st.frontendsMap[name]
     ELSE [Name |-> name, Port |-> rule.SourcePort,
           Protocol |-> rule.Protocol, BackendServices |-> <<>>]

\* rancher.go 304-364: the backend of a rule that was not skipped
RuleBackend(st, rule, res) ==
  LET name == Itoa(rule.SourcePort)
      frontend == FrontendOf(st, rule)
      n == Normalize(rule)
      pathUUID == PathUUID(rule.SourcePort, n.hostname, n.path)
  IN IF pathUUID \in DOMAIN st.allBe
     THEN LET m == MergeEndpoints(st.allBe[pathUUID].Endpoints,
                                  st.allEps[pathUUID], res.eps, rule.Weight)
          IN [frontendsMap |-> (name :> frontend) @@ st.frontendsMap,
              allBe |-> [st.allBe EXCEPT ![pathUUID].Endpoints = m.Endpoints],
              allEps |-> [st.allEps EXCEPT ![pathUUID] = m.epMap]]
     ELSE LET UUID == IF rule.BackendName = <<>>
                      THEN ReplaceAllString(pathUUID)
                      ELSE rule.BackendName
              backend == [UUID |-> UUID, Host |-> n.hostname, Path |-> n.path,
                          Port |-> rule.TargetPort, Protocol |-> rule.Protocol,
                          RuleComparator |-> n.comparator,
                          Endpoints |-> SetWeight(res.eps, rule.Weight),
                          HealthCheck |-> res.hc, Priority |-> rule.Priority]
          IN [frontendsMap |->
                (name :> [frontend EXCEPT !.BackendServices =
                                            Append(@, pathUUID)])
                @@ st.frontendsMap,
              allBe |-> (pathUUID :> backend) @@ st.allBe,
              allEps |-> (pathUUID :> {res.eps[i].IP : i \in 1..Len(res.eps)})
                         @@ st.allEps]

\* a loop body that stores the frontend before it looks at the endpoints
RuleBody_storeFirst(st, rule, res) ==
  IF res.skip
  THEN [st EXCEPT !.frontendsMap =
                    (Itoa(rule.SourcePort) :> FrontendOf(st, rule)) @@ @]
  ELSE RuleBackend(st, rule, res)

\* one iteration of "for _, rule := range lbMeta.PortRules" on the maps
\* st = [frontendsMap, allBe, allEps]; res is the rule's RuleEndpoints
RuleBody(st, rule, res) ==
  IF res.skip THEN st ELSE RuleBackend(st, rule, res)

\* a loop body that lacks the "rule.SourcePort < 1" test
RuleStep_anyPort(st, rule, localServicePreference, order) ==
  RuleBody(st, rule, RuleEndpoints(rule, localServicePreference, order))

\* rancher.go 247-365: the loop body
RuleStep(st, rule, localServicePreference, order) ==
  IF rule.SourcePort < 1 THEN st
  ELSE RuleBody(st, rule, RuleEndpoints(rule, localServicePreference, order))

ComparatorRank(c) == CASE c = "eq" -> 1 [] c = "beg" -> 2 [] c = "end" -> 3

\* config.BackendServices.Less: by Priority, then eq before beg before end,
\* then by UUID
BackendLess(a, b) ==
  \/ a.Priority < b.Priority
  \/ /\ a.Priority = b.Priority
     /\ ComparatorRank(a.RuleComparator) < ComparatorRank(b.RuleComparator)
  \/ /\ a.Priority = b.Priority
     /\ a.RuleComparator = b.RuleComparator
     /\ StrLess(a.UUID, b.UUID)

RECURSIVE InsertBackend(_, _)
InsertBackend(sorted, be) ==
  IF sorted = <<>> THEN <<be>>
  ELSE IF BackendLess(be, sorted[Len(sorted)])
       THEN Append(InsertBackend(SubSeq(sorted, 1, Len(sorted) - 1), be),
                   sorted[Len(sorted)])
       ELSE Append(sorted, be)

\* sort.Sort(v.BackendServices)
RECURSIVE SortBackends(_)
SortBackends(bes) ==
  IF bes = <<>> THEN bes
  ELSE InsertBackend(SortBackends(SubSeq(bes, 1, Len(bes) - 1)), bes[Len(bes)])

\* config.FrontendServices.Less: by Port
FrontendLess(a, b) == a.Port < b.Port

RECURSIVE InsertFrontend(_, _)
InsertFrontend(sorted, fe) ==
  IF sorted = <<>> THEN <<fe>>
  ELSE IF FrontendLess(fe, sorted[Len(sorted)])
       THEN Append(InsertFrontend(SubSeq(sorted, 1, Len(sorted) - 1), fe),
                   sorted[Len(sorted)])
       ELSE Append(sorted, fe)

\* sort.Sort(frontends)
RECURSIVE SortFrontends(_)
SortFrontends(fes) ==
  IF fes = <<>> THEN fes
  ELSE InsertFrontend(SortFrontends(SubSeq(fes, 1, Len(fes) - 1)),
                      fes[Len(fes)])

\* rancher.go 367-375: the frontends of the map, visited in the order keys,
\* each with its backends sorted, then sorted themselves
Frontends(keys) ==
  SortFrontends(
    [i \in 1..Len(keys) |->
       LET v == frontendsMap[keys[i]]
       IN [v EXCEPT !.BackendServices =
             SortBackends([j \in 1..Len(v.BackendServices) |->
                             allBe[v.BackendServices[j]]])]])

\* a build starts: the maps are made
BuildStart ==
  /\ bpc = "rules"
  /\ bidx = 1
  /\ frontendsMap = <<>>
  /\ allBe = <<>>
  /\ allEps = <<>>

BuildInit ==
  /\ LoopInit
  /\ SelIdle
  /\ AuxIdle
  /\ bin \in BuildInputs
  /\ BuildStart
  /\ bout = <<>>
  /\ bruns = 0
  /\ bprev = <<>>

\* one iteration of the loop over lbMeta.PortRules; a dnsService's Links are
\* visited in some order
BuildRule ==
  /\ bpc = "rules"
  /\ bidx <= Len(bin.rules)
  /\ \E order \in LinkOrdersOf(bin.rules[bidx].Service) :
       LET st == RuleStep([frontendsMap |-> frontendsMap, allBe |-> allBe,
                           allEps |-> allEps],
                          bin.rules[bidx], bin.pref, order)
       IN /\ frontendsMap' = st.frontendsMap
          /\ allBe' = st.allBe
          /\ allEps' = st.allEps
  /\ bidx' = bidx + 1
  /\ UNCHANGED <<bpc, bin, bout, bruns, bprev, loopVars, selVars, auxVars>>

\* the loop is over: the frontends map is visited in some order, the
\* backends and the frontends are sorted and the config is returned
BuildFinish ==
  /\ bpc = "rules"
  /\ bidx > Len(bin.rules)
  /\ \E keys \in Orders(DOMAIN frontendsMap) : bout' = Frontends(keys)
  /\ bpc' = "done"
  /\ bruns' = bruns + 1
  /\ UNCHANGED <<bin, bidx, frontendsMap, allBe, allEps, bprev, loopVars, selVars, auxVars>>

\* the next tick builds again from the same snapshot and the same lbMeta
Rebuild ==
  /\ bpc = "done"
  /\ bruns = 1
  /\ bprev' = bout
  /\ bpc' = "rules"
  /\ bidx' = 1
  /\ frontendsMap' = <<>>
  /\ allBe' = <<>>
  /\ allEps' = <<>>
  /\ UNCHANGED <<bin, bout, bruns, loopVars, selVars, auxVars>>

BuildNext == BuildRule \/ BuildFinish \/ Rebuild

BuildSpec == BuildInit /\ [][BuildNext]_vars

\* ------------------------------------------------------------------------
\* Properties of BuildConfigFromMetadata
\* ------------------------------------------------------------------------

\* C8: for a fixed metadata snapshot and a fixed lbMeta, two builds return
\* identical configs (the same frontends, backends and endpoints in the same
\* order), whatever order the frontends map and a dnsService's Links are
\* iterated in.
C8_BuildDeterministic ==
  (bpc = "done" /\ bruns = 2) => bout = bprev

\* the rules the loop has been through
Processed == {bin.rules[i] : i \in 1..(bidx - 1)}

\* C9: every frontend's Name is the decimal string of its Port, its Port is
\* at least 1 and no two frontends share a Port; a rule with SourcePort < 1
\* contributes no frontend and no backend: every frontend and every backend
\* there is comes from a rule whose SourcePort is at least 1.
C9_FrontendPorts ==
  /\ bpc # "off" =>
       /\ \A name \in DOMAIN frontendsMap :
            /\ frontendsMap[name].Name = name
            /\ name = Itoa(frontendsMap[name].Port)
            /\ frontendsMap[name].Port >= 1
            /\ \E rule \in Processed : rule.SourcePort = frontendsMap[name].Port
       /\ \A pathUUID \in DOMAIN allBe :
            \E rule \in Processed :
              /\ rule.SourcePort >= 1
              /\ pathUUID = PathUUID(rule.SourcePort, Normalize(rule).hostname,
                                     Normalize(rule).path)
              /\ \E name \in DOMAIN frontendsMap :
                   /\ frontendsMap[name].Port = rule.SourcePort
                   /\ \E j \in 1..Len(frontendsMap[name].BackendServices) :
                        frontendsMap[name].BackendServices[j] = pathUUID
       /\ (\A rule \in Processed : rule.SourcePort < 1) =>
            frontendsMap = <<>> /\ allBe = <<>> /\ allEps = <<>>
  /\ bpc = "done" =>
       /\ Len(bout) = Cardinality(DOMAIN frontendsMap)
       /\ \A i \in 1..Len(bout) :
            /\ bout[i].Name = Itoa(bout[i].Port)
            /\ bout[i].Port >= 1
            /\ \E rule \in Processed : rule.SourcePort = bout[i].Port
            /\ \A j \in 1..Len(bout) : bout[i].Port = bout[j].Port => i = j
            /\ Len(bout[i].BackendServices)
                 <= Cardinality({k \in 1..Len(bin.rules) :
                                   bin.rules[k].SourcePort = bout[i].Port})

\* a build of a rule with SourcePort < 1 and a rule that gives a frontend
C9_Witness ==
  /\ bpc = "done"
  /\ \E rule \in Processed : rule.SourcePort < 1
  /\ Len(bout) = 1
  /\ Len(bout[1].BackendServices) = 1

\* the rule reaches the backend part of the loop body: its port is at least
\* 1, its service is active or its container gives an endpoint
Contributes(rule) ==
  /\ rule.SourcePort >= 1
  /\ IF rule.Service # ""
     THEN IsActiveService(GetService(rule.Service))
     ELSE ContainerEndpoint(GetContainer(envUUID, rule.Container),
                            rule.TargetPort, selfHostUUID, bin.pref).ep # <<>>

\* C10: every frontend F of the built config has as many backends as there
\* are distinct normalized (hostname', path') pairs among the rules of F's
\* source port (those that reach the backend part of the loop body): two
\* rules share a backend exactly when their (SourcePort, hostname', path')
\* are equal.
C10_BackendPerPair ==
  bpc = "done" =>
    \A i \in 1..Len(bout) :
      Len(bout[i].BackendServices) =
        Cardinality({<<Normalize(rule).hostname, Normalize(rule).path>> :
                       rule \in {r \in Processed :
                                   /\ Contributes(r)
                                   /\ r.SourcePort = bout[i].Port}})

\* C11: in every built config the endpoints of any one backend have pairwise
\* distinct IPs, whatever the kind of the target service and whether the
\* backend comes from one rule or was merged from several.
C11_UniqueEndpointIPs ==
  bpc = "done" =>
    \A f \in 1..Len(bout) :
      \A b \in 1..Len(bout[f].BackendServices) :
        LET endpoints == bout[f].BackendServices[b].Endpoints
        IN \A i, j \in 1..Len(endpoints) :
             endpoints[i].IP = endpoints[j].IP => i = j

\* the addresses that only services in an inactive state have
InactiveIPs ==
  LET ips(svc) == {svc.Containers[i].PrimaryIp : i \in 1..Len(svc.Containers)}
                  \cup {svc.ExternalIps[i] : i \in 1..Len(svc.ExternalIps)}
  IN UNION {ips(GetService(l)) :
              l \in {k \in ServiceLinks : ~IsActiveService(GetService(k))}}
     \ UNION {ips(GetService(l)) :
                l \in {k \in ServiceLinks : IsActiveService(GetService(k))}}

\* C12: a service whose state is inactive, deactivating, removed or removing
\* contributes no endpoint to any backend, whether a port rule names it or a
\* dnsService links to it.
C12_InactiveNoEndpoints ==
  bpc = "done" =>
    \A f \in 1..Len(bout) :
      \A b \in 1..Len(bout[f].BackendServices) :
        \A e \in 1..Len(bout[f].BackendServices[b].Endpoints) :
          bout[f].BackendServices[b].Endpoints[e].IP \notin InactiveIPs

\* the rule names a service and the link resolves to no service
Unresolved(rule) ==
  rule.Service # "" /\ GetService(rule.Service) = ZeroService

\* C13: a port rule whose Service link resolves to no service is dropped: it
\* creates no backend and no frontend (every backend and every frontend comes
\* from a processed rule whose target resolves), and the build finishes.
C13_MissingServiceDropped ==
  bpc # "off" =>
    /\ \A pathUUID \in DOMAIN allBe :
         \E rule \in Processed :
           /\ ~Unresolved(rule)
           /\ pathUUID = PathUUID(rule.SourcePort, Normalize(rule).hostname,
                                  Normalize(rule).path)
    /\ \A name \in DOMAIN frontendsMap :
         \E rule \in Processed :
           ~Unresolved(rule) /\ name = Itoa(rule.SourcePort)

\* the string with every non-alphanumeric character replaced by "_"
ReplaceEach(str) ==
  [i \in 1..Len(str) |-> IF str[i] \in Alnum THEN str[i] ELSE "_"]

\* the rule that created the backend kept under pathUUID: the first
\* processed rule with that key that reaches the backend part of the loop
Creator(pathUUID) ==
  LET makes(i) ==
        /\ Contributes(bin.rules[i])
        /\ pathUUID = PathUUID(bin.rules[i].SourcePort,
                               Normalize(bin.rules[i]).hostname,
                               Normalize(bin.rules[i]).path)
  IN bin.rules[CHOOSE i \in 1..(bidx - 1) :
                 makes(i) /\ \A j \in 1..(i - 1) : ~makes(j)]

\* C14: the UUID of a backend is the BackendName of the rule that created it
\* when that is set, and otherwise the identity string
\* "SourcePort_Hostname'_Path'" with every non-alphanumeric character
\* replaced by "_" ("45__" for port 45 with empty hostname and path).
C14_BackendUUID ==
  bpc # "off" =>
    \A pathUUID \in DOMAIN allBe :
      allBe[pathUUID].UUID =
        IF Creator(pathUUID).BackendName # <<>>
        THEN Creator(pathUUID).BackendName
        ELSE ReplaceEach(pathUUID)

\* what the normalization rules give for a rule, case by case
Normalized(rule) ==
  LET h == rule.Hostname
  IN IF ToLower(rule.Protocol) \notin {"http", "https", "sni"}
     THEN [hostname |-> <<>>, path |-> <<>>, comparator |-> "eq"]
     ELSE IF Len(h) <= 2
     THEN [hostname |-> h, path |-> rule.Path, comparator |-> "eq"]
     ELSE IF h[1] = "*"
     THEN [hostname |-> SubSeq(h, 2, Len(h)), path |-> rule.Path,
           comparator |-> "end"]
     ELSE IF h[Len(h)] = "*"
     THEN [hostname |-> SubSeq(h, 1, Len(h) - 1), path |-> rule.Path,
           comparator |-> "beg"]
     ELSE [hostname |-> h, path |-> rule.Path, comparator |-> "eq"]

\* the backends the rule created
OwnBackends(rule) ==
  {allBe[k] : k \in {pathUUID \in DOMAIN allBe : Creator(pathUUID) = rule}}

\* C15: a backend's Host, Path and RuleComparator are the normalization of
\* the rule that created it: empty, empty and eq for a protocol other than
\* http, https, sni; otherwise a hostname longer than 2 that starts with "*"
\* loses it and gets end, else one that ends with "*" loses it and gets beg,
\* else it is unchanged with eq; a hostname of length <= 2 is unchanged
\* with eq.
C15_Normalization ==
  bpc # "off" =>
    \A rule \in Processed :
      /\ Contributes(rule) =>
           \E pathUUID \in DOMAIN allBe :
             pathUUID = PathUUID(rule.SourcePort, Normalized(rule).hostname,
                                 Normalized(rule).path)
      /\ \A be \in OwnBackends(rule) :
           /\ be.Host = Normalized(rule).hostname
           /\ be.Path = Normalized(rule).path
           /\ be.RuleComparator = Normalized(rule).comparator

\* a finished build with a backend made from "*ab" (end), one from a
\* two-character "*a" (unchanged, eq)
C15_Witness ==
  /\ bpc = "done"
  /\ \E k \in DOMAIN allBe :
       /\ Creator(k).Hostname = <<"*", "a", "b">>
       /\ allBe[k].RuleComparator = "end"
       /\ allBe[k].Host = <<"a", "b">>
  /\ \E k \in DOMAIN allBe :
       /\ Creator(k).Hostname = <<"*", "a">>
       /\ allBe[k].RuleComparator = "eq"
       /\ allBe[k].Host = <<"*", "a">>

\* the addresses of the containers in state stopping
StoppingIPs ==
  {Containers[i].PrimaryIp :
     i \in {k \in 1..Len(Containers) : EqualFold(Containers[k].State, "stopping")}}

\* C16: in a config built by the source that drains (part_000), an endpoint
\* derived from a container in state stopping has Weight "0", whatever the
\* Weight of the port rule that references its service.
C16_StoppingWeightZero ==
  (bpc = "done" /\ bin.src = "part_000") =>
    \A f \in 1..Len(bout) :
      \A b \in 1..Len(bout[f].BackendServices) :
        \A e \in 1..Len(bout[f].BackendServices[b].Endpoints) :
          LET ep == bout[f].BackendServices[b].Endpoints[e]
          IN ep.IP \in StoppingIPs => ep.Weight = "0"

\* the container yields an endpoint in the source the build is made from
Live(c) ==
  \/ ToLower(c.State) \in {"running", "starting"}
  \/ bin.src = "part_000" /\ ToLower(c.State) = "stopping"

\* the addresses the locality policy gives for a regular service
PolicyIPs(svc) ==
  LET cs == {svc.Containers[i] : i \in 1..Len(svc.Containers)}
      live == {c \in cs : Live(c)}
      local == {c \in live : c.HostUUID = selfHostUUID}
      chosen == CASE bin.pref = "any" -> live
                  [] bin.pref = "only-local" -> local
                  [] bin.pref = "prefer-local" ->
                       IF local # {} THEN local ELSE live \ local
  IN {c.PrimaryIp : c \in chosen}

\* the processed rules that reach the backend part with the key pathUUID
RulesOf(pathUUID) ==
  {rule \in Processed :
     /\ Contributes(rule)
     /\ pathUUID = PathUUID(rule.SourcePort, Normalize(rule).hostname,
                            Normalize(rule).path)}

\* C17: the endpoints of a backend made by one rule on a regular service are
\* those of the locality policy: under any every live container, under
\* only-local the live containers on the controller's host, under
\* prefer-local the local ones when there is one and otherwise all live
\* non-local ones.
C17_LocalityPolicy ==
  bpc # "off" =>
    \A pathUUID \in DOMAIN allBe :
      \A rule \in RulesOf(pathUUID) :
        (/\ RulesOf(pathUUID) = {rule}
         /\ rule.Service # ""
         /\ GetService(rule.Service).Kind = "service") =>
          LET endpoints == allBe[pathUUID].Endpoints
          IN /\ {endpoints[i].IP : i \in 1..Len(endpoints)}
                  = PolicyIPs(GetService(rule.Service))
             /\ Len(endpoints) = Cardinality(PolicyIPs(GetService(rule.Service)))

\* prefer-local with no live local container (stackA/api in rancher.go):
\* the two non-local endpoints are emitted
C17_Witness ==
  /\ bpc = "done"
  /\ bin.pref = "prefer-local"
  /\ bin.src = "rancher.go"
  /\ \E pathUUID \in DOMAIN allBe :
       /\ \E rule \in RulesOf(pathUUID) :
            RulesOf(pathUUID) = {rule} /\ rule.Service = "stackA/api"
       /\ Len(allBe[pathUUID].Endpoints) = 2

\* ------------------------------------------------------------------------
\* processSelector: selector rules are expanded into rules on services
\* ------------------------------------------------------------------------

\* the longest LBConfig.PortRules given to processSelector
MaxSelRules == 2

\* a selector is a list of terms: key=value, or the bare key
Term(key, value) == [key |-> key, eq |-> TRUE, value |-> value]

HasKey(key) == [key |-> key, eq |-> FALSE, value |-> ""]

\* every term matches the labels
IsSelectorMatch(selector, labels) ==
  \A i \in 1..Len(selector) :
    /\ selector[i].key \in DOMAIN labels
    /\ selector[i].eq => labels[selector[i].key] = selector[i].value

\* a port rule of the balancer's LBConfig that may carry a selector
NewSelectorRule(port, proto, selector, region, environment, svc, target, prio) ==
  [SourcePort |-> port, Protocol |-> proto, Hostname |-> <<>>, Path |-> <<>>,
   Service |-> svc, Container |-> "", TargetPort |-> target,
   BackendName |-> <<>>, Priority |-> prio, Weight |-> "1",
   Selector |-> selector, Region |-> region, Environment |-> environment]

\* the port rules the balancer's LBConfig is drawn from
SelRuleSet ==
  { NewSelectorRule(45, "http", <<Term("foo", "bar")>>, "region2", "alpha", "", 80, 3),
    NewSelectorRule(45, "http", <<Term("foo", "bar")>>, "", "bar", "", 80, 0),
    NewSelectorRule(45, "http", <<HasKey("app")>>, "region1", "", "", 80, 1),
    NewSelectorRule(80, "http", <<Term("foo", "bar")>>, "region1", "bar", "", 80, 4),
    NewSelectorRule(80, "tcp", <<HasKey("app")>>, "", "", "", 0, 0),
    NewSelectorRule(80, "http", <<>>, "", "", "stackB/svcB", 80, 2),
    NewSelectorRule(45, "http", <<Term("foo", "baz")>>, "region2", "alpha", "", 80, 0),
    NewSelectorRule(45, "http", <<Term("foo", "bar"), HasKey("foo")>>, "", "bar", "", 0, 0),
    NewSelectorRule(45, "http", <<HasKey("app")>>, "region2", "", "", 80, 0) }

\* the fetches of processSelector; one of them may fail
Fetches ==
  {"GetServices", "GetRegionName", "GetServicesByEnvironment",
   "GetServicesByRegionEnvironment"}

\* rules: the LBConfig's port rules; fault: the fetch that fails, if any;
\* blank: whether the metadata answers a blank environment name with the
\* services of the controller's environment; src: the source file
SelectorInputs ==
  [rules : SeqsUpTo(SelRuleSet, MaxSelRules), fault : Fetches \cup {"none"},
   blank : BOOLEAN, src : BuildSources]

\* the fetchers, on a metadata that answers
GetServices == <<SvcB, SvcL>>

GetRegionName == selfRegion

GetServicesByEnvironment(envName, blank) ==
  IF envName = "bar" THEN <<Drone>>
  ELSE IF envName = "" /\ blank THEN GetServices
  ELSE <<>>

ZeroLabelledService == NewLabelledService("", "", NoLabels, <<>>, <<>>)

GetServicesByRegionEnvironment(regionName, envName) ==
  IF regionName = "region2" /\ envName = "alpha" THEN <<SvcX, SvcY>>
  ELSE <<ZeroLabelledService, ZeroLabelledService>>

RECURSIVE Flatten(_)
Flatten(seqs) ==
  IF seqs = <<>> THEN <<>> ELSE Head(seqs) \o Flatten(Tail(seqs))

\* a literal that copies the Priority of the selector rule
NewPortRule_keepPriority(lbRule, rule, svcName, region, environment) ==
  [SourcePort |-> lbRule.SourcePort, Protocol |-> lbRule.Protocol,
   Hostname |-> rule.Hostname, Path |-> rule.Path, Service |-> svcName,
   Container |-> "", TargetPort |-> rule.TargetPort,
   BackendName |-> rule.BackendName, Priority |-> lbRule.Priority,
   Weight |-> lbRule.Weight, Selector |-> <<>>, Region |-> region,
   Environment |-> environment]

\* the metadata.PortRule literal: lbRule gives the port, the protocol and the
\* weight, rule gives the path, the hostname, the target and the backend name
NewPortRule(lbRule, rule, svcName, region, environment) ==
  [SourcePort |-> lbRule.SourcePort, Protocol |-> lbRule.Protocol,
   Hostname |-> rule.Hostname, Path |-> rule.Path, Service |-> svcName,
   Container |-> "", TargetPort |-> rule.TargetPort,
   BackendName |-> rule.BackendName, Priority |-> 0, Weight |-> lbRule.Weight,
   Selector |-> <<>>, Region |-> region, Environment |-> environment]

\* the body of "for _, svc := range svcs": the rules one service adds
ServiceRules(lbRule, svc, svcName, region, environment) ==
  IF ~IsSelectorMatch(lbRule.Selector, svc.Labels) THEN <<>>
  ELSE IF Len(svc.PortRules) = 0 /\ lbRule.TargetPort = 0 THEN <<>>
  ELSE IF Len(svc.PortRules) > 0
  THEN [i \in 1..Len(svc.PortRules) |->
          NewPortRule(lbRule, svc.PortRules[i], svcName, region, environment)]
  ELSE <<NewPortRule(lbRule, lbRule, svcName, region, environment)>>

\* the rules of the services of the controller's environment
LocalRules(lbRule, svcs) ==
  Flatten([i \in 1..Len(svcs) |->
             ServiceRules(lbRule, svcs[i],
                          svcs[i].StackName \o "/" \o svcs[i].Name, "", "")])

\* rancher.go 526-535: the fetch made for the rule's Region and Environment
externalFetch(lbRule, regionName) ==
  IF lbRule.Region # ""
  THEN IF lbRule.Region = regionName THEN "GetServicesByEnvironment"
       ELSE IF lbRule.Environment # "" THEN "GetServicesByRegionEnvironment"
       ELSE ""
  ELSE IF lbRule.Environment # "" THEN "GetServicesByEnvironment"
  ELSE ""

\* part_000 494-500
externalFetch_part000(lbRule) ==
  IF lbRule.Region # ""
  THEN IF lbRule.Environment # "" THEN "GetServicesByRegionEnvironment"
       ELSE ""
  ELSE IF lbRule.Environment # "" THEN "GetServicesByEnvironment"
  ELSE ""

\* what the fetch returns: [externalsvcs, err]
Fetched(fetch, lbRule, in) ==
  IF fetch = "" THEN [externalsvcs |-> <<>>, err |-> FALSE]
  ELSE IF fetch = in.fault THEN [externalsvcs |-> <<>>, err |-> TRUE]
  ELSE IF fetch = "GetServicesByEnvironment"
  THEN [externalsvcs |-> GetServicesByEnvironment(lbRule.Environment, in.blank),
        err |-> FALSE]
  ELSE [externalsvcs |->
          GetServicesByRegionEnvironment(lbRule.Region, lbRule.Environment),
        err |-> FALSE]

\* rancher.go 554-559
svcName(lbRule, regionName, svc) ==
  IF lbRule.Region # "" /\ lbRule.Region # regionName
  THEN lbRule.Region \o "/" \o lbRule.Environment \o "/" \o svc.StackName
       \o "/" \o svc.Name
  ELSE IF lbRule.Environment # ""
  THEN lbRule.Environment \o "/" \o svc.StackName \o "/" \o svc.Name
  ELSE ""

\* part_000 518-523
svcName_part000(lbRule, svc) ==
  IF lbRule.Region # ""
  THEN lbRule.Region \o "/" \o lbRule.Environment \o "/" \o svc.StackName
       \o "/" \o svc.Name
  ELSE IF lbRule.Environment # ""
  THEN lbRule.Environment \o "/" \o svc.StackName \o "/" \o svc.Name
  ELSE ""

\* rancher.go 522-593: the error of the fetch is overwritten, never read
ExternalRules(lbRule, regionName, in) ==
  LET externalsvcs ==
        Fetched(externalFetch(lbRule, regionName), lbRule, in).externalsvcs
  IN Flatten([i \in 1..Len(externalsvcs) |->
                ServiceRules(lbRule, externalsvcs[i],
                             svcName(lbRule, regionName, externalsvcs[i]),
                             lbRule.Region, lbRule.Environment)])

\* part_000 491-559: [rules, err], rules being the ones added
AddRulesFromRegions(lbRule, in) ==
  LET f == Fetched(externalFetch_part000(lbRule), lbRule, in)
  IN IF f.err THEN [rules |-> <<>>, err |-> TRUE]
     ELSE [rules |->
             Flatten([i \in 1..Len(f.externalsvcs) |->
                        ServiceRules(lbRule, f.externalsvcs[i],
                                     svcName_part000(lbRule, f.externalsvcs[i]),
                                     lbRule.Region, lbRule.Environment)]),
           err |-> FALSE]

\* rancher.go 447-598: [err, PortRules], PortRules being lbMeta.PortRules
\* when it returns
processSelector(in) ==
  IF in.fault = "GetServices" THEN [err |-> TRUE, PortRules |-> in.rules]
  ELSE LET regionName == IF in.fault = "GetRegionName" THEN ""
                         ELSE GetRegionName
           Expand(lbRule) ==
             IF lbRule.Selector = <<>> THEN <<lbRule>>
             ELSE LocalRules(lbRule, GetServices)
                  \o ExternalRules(lbRule, regionName, in)
       IN [err |-> FALSE,
           PortRules |-> Flatten([i \in 1..Len(in.rules) |->
                                    Expand(in.rules[i])])]

\* part_000 575-646
processSelector_part000(in) ==
  IF in.fault = "GetServices" THEN [err |-> TRUE, PortRules |-> in.rules]
  ELSE LET Expand(lbRule) ==
             IF lbRule.Selector = <<>> THEN <<lbRule>>
             ELSE LocalRules(lbRule, GetServices)
                  \o AddRulesFromRegions(lbRule, in).rules
       IN IF \E i \in 1..Len(in.rules) :
               /\ in.rules[i].Selector # <<>>
               /\ AddRulesFromRegions(in.rules[i], in).err
          THEN [err |-> TRUE, PortRules |-> in.rules]
          ELSE [err |-> FALSE,
                PortRules |-> Flatten([i \in 1..Len(in.rules) |->
                                         Expand(in.rules[i])])]

SelectInit ==
  /\ LoopInit
  /\ BuildIdle
  /\ AuxIdle
  /\ sel \in SelectorInputs
  /\ selpc = "start"
  /\ selret = "none"
  /\ lbMeta = sel.rules

\* CollectLBMetadata: GetLBMetadata, then processSelector
CollectLBMetadata ==
  /\ selpc = "start"
  /\ LET r == IF sel.src = "rancher.go" THEN processSelector(sel)
              ELSE processSelector_part000(sel)
     IN /\ selret' = IF r.err THEN "err" ELSE "nil"
        /\ lbMeta' = r.PortRules
  /\ selpc' = "done"
  /\ UNCHANGED <<sel, buildVars, loopVars, auxVars>>

\* GetLBConfigs 411-430: BuildConfigFromMetadata is called on the expanded
\* metadata, the balancer carrying no io.rancher.lb_service.target label
BuildExpanded ==
  /\ selpc = "done"
  /\ selret = "nil"
  /\ bpc = "off"
  /\ bin' = [rules |-> lbMeta, pref |-> "any", src |-> sel.src]
  /\ bpc' = "rules"
  /\ bidx' = 1
  /\ frontendsMap' = <<>>
  /\ allBe' = <<>>
  /\ allEps' = <<>>
  /\ UNCHANGED <<bout, bruns, bprev, selVars, loopVars, auxVars>>

SelectNext == CollectLBMetadata \/ BuildExpanded \/ BuildRule \/ BuildFinish

SelectSpec == SelectInit /\ [][SelectNext]_vars

\* ------------------------------------------------------------------------
\* Properties of processSelector
\* ------------------------------------------------------------------------

\* the selector rules of an input
SelectorRules(in) ==
  {in.rules[i] : i \in {j \in 1..Len(in.rules) : in.rules[j].Selector # <<>>}}

\* the fetches processSelector makes on an input
FetchesMade(in) ==
  {"GetServices"} \cup
  IF in.fault = "GetServices" THEN {}
  ELSE IF in.src = "rancher.go"
  THEN {"GetRegionName"} \cup
       ({externalFetch(r, IF in.fault = "GetRegionName" THEN ""
                          ELSE GetRegionName) : r \in SelectorRules(in)}
        \ {""})
  ELSE {externalFetch_part000(r) : r \in SelectorRules(in)} \ {""}

\* C18: processSelector returns an error whenever a fetch it makes fails and
\* then leaves lbMeta.PortRules as they were; it returns no error otherwise,
\* a selector that matches no service included.
C18_FetchErrors ==
  selpc = "done" =>
    IF sel.fault \in FetchesMade(sel)
    THEN selret = "err" /\ lbMeta = sel.rules
    ELSE selret = "nil"

\* the services of the snapshot that carry a stack
LabelledServices == {SvcB, SvcL, Drone, SvcX, SvcY}

\* the link of a rule names a service in the form of the rule's scope
QualifiedLink(rule) ==
  \E svc \in LabelledServices :
    \/ /\ rule.Region = "" /\ rule.Environment = ""
       /\ rule.Service = svc.StackName \o "/" \o svc.Name
    \/ /\ rule.Region \in {"", selfRegion} /\ rule.Environment # ""
       /\ rule.Service = rule.Environment \o "/" \o svc.StackName \o "/"
                         \o svc.Name
    \/ /\ rule.Region \notin {"", selfRegion} /\ rule.Environment # ""
       /\ rule.Service = rule.Region \o "/" \o rule.Environment \o "/"
                         \o svc.StackName \o "/" \o svc.Name

\* the rules processSelector emitted: the ones it did not pass through
Emitted ==
  {lbMeta[i] : i \in {j \in 1..Len(lbMeta) :
                        \A k \in 1..Len(sel.rules) : lbMeta[j] # sel.rules[k]}}

\* C19: every rule emitted for a selector rule has a non-empty Service link,
\* stack/name for a local match, env/stack/name for a match in a peer
\* environment of the region, region/env/stack/name for a match in another
\* region, whatever Region and Environment the selector rule carries.
C19_QualifiedLinks ==
  (selpc = "done" /\ selret = "nil") =>
    \A rule \in Emitted : rule.Service # "" /\ QualifiedLink(rule)

\* the services a selector rule yields rules for
MatchedServices(lbRule) ==
  LET svcs == GetServices
              \o Fetched(externalFetch(lbRule, GetRegionName), lbRule,
                         sel).externalsvcs
  IN {svcs[i] : i \in {j \in 1..Len(svcs) :
        /\ IsSelectorMatch(lbRule.Selector, svcs[j].Labels)
        /\ ~(Len(svcs[j].PortRules) = 0 /\ lbRule.TargetPort = 0)}}

\* rule a is scoped to an environment of another region, rule b to a peer
\* environment; they share port and protocol, carry no hostname and no path
\* and match one service each
SelectorPair(a, b) ==
  /\ a.Selector # <<>> /\ b.Selector # <<>>
  /\ a.Region \notin {"", selfRegion} /\ a.Environment # ""
  /\ b.Region \in {"", selfRegion} /\ b.Environment # ""
  /\ a.SourcePort = b.SourcePort /\ a.Protocol = b.Protocol
  /\ a.TargetPort = b.TargetPort
  /\ a.Hostname = <<>> /\ a.Path = <<>> /\ b.Hostname = <<>> /\ b.Path = <<>>
  /\ Cardinality(MatchedServices(a)) = 1
  /\ Cardinality(MatchedServices(b)) = 1

\* C20: two such selector rules yield, after processSelector and
\* BuildConfigFromMetadata, one frontend on their port with two backends, the
\* first of which has the rules' TargetPort as its Port.
C20_SelectorMatch ==
  (bpc = "done" /\ sel.fault = "none" /\ Len(sel.rules) = 2) =>
    \A i, j \in 1..2 :
      SelectorPair(sel.rules[i], sel.rules[j]) =>
        /\ Len(bout) = 1
        /\ bout[1].Port = sel.rules[i].SourcePort
        /\ Len(bout[1].BackendServices) = 2
        /\ bout[1].BackendServices[1].Port = sel.rules[i].TargetPort

\* the fields of a rule that processSelector copies
Copied(rule, region, environment) ==
  [SourcePort |-> rule.SourcePort, Protocol |-> rule.Protocol,
   Weight |-> rule.Weight, Region |-> region, Environment |-> environment,
   Path |-> rule.Path, Hostname |-> rule.Hostname,
   TargetPort |-> rule.TargetPort, BackendName |-> rule.BackendName]

\* the services processSelector went through for a selector rule: the local
\* ones, then the ones it fetched for the rule's Region and Environment
Candidates(lbRule) ==
  GetServices
  \o Fetched(IF sel.src = "rancher.go"
             THEN externalFetch(lbRule, IF sel.fault = "GetRegionName" THEN ""
                                        ELSE GetRegionName)
             ELSE externalFetch_part000(lbRule),
             lbRule, sel).externalsvcs

\* what a matched service is to yield for the selector rule R
NestedOf(R, svc) ==
  IF ~IsSelectorMatch(R.Selector, svc.Labels) THEN <<>>
  ELSE IF svc.PortRules = <<>>
  THEN IF R.TargetPort = 0 THEN <<>>
       ELSE <<Copied(R, R.Region, R.Environment)>>
  ELSE [i \in 1..Len(svc.PortRules) |->
          [Copied(svc.PortRules[i], R.Region, R.Environment)
             EXCEPT !.SourcePort = R.SourcePort, !.Protocol = R.Protocol,
                    !.Weight = R.Weight]]

\* C21: for every service matched by a selector rule R, local, peer or
\* cross-region, processSelector emits one rule per nested rule, in declared
\* order, with R's SourcePort, Protocol, Weight, Region and Environment and
\* the nested rule's Path, Hostname, TargetPort and BackendName; a matched
\* service without nested rules is skipped when R.TargetPort is 0 and yields
\* one rule with R's own fields otherwise.
C21_NestedRules ==
  (selpc = "done" /\ selret = "nil") =>
    [i \in 1..Len(lbMeta) |->
       Copied(lbMeta[i], lbMeta[i].Region, lbMeta[i].Environment)]
    = Flatten([i \in 1..Len(sel.rules) |->
         LET R == sel.rules[i]
         IN IF R.Selector = <<>> THEN <<Copied(R, R.Region, R.Environment)>>
            ELSE Flatten([j \in 1..Len(Candidates(R)) |->
                            NestedOf(R, Candidates(R)[j])])])

\* ------------------------------------------------------------------------
\* GetService: which fetch a link leads to
\* ------------------------------------------------------------------------

\* strings.Split(link, "/") on the links of the model
Split(link) ==
  CASE link = "web" -> <<"web">>
    [] link = "stackA/web" -> <<"stackA", "web">>
    [] link = "stackB/svcB" -> <<"stackB", "svcB">>
    [] link = "bar/stackC/drone" -> <<"bar", "stackC", "drone">>
    [] link = "region1/stackA/web" -> <<"region1", "stackA", "web">>
    [] link = "region1/bar/stackC/drone" ->
         <<"region1", "bar", "stackC", "drone">>
    [] link = "region2/alpha/stackX/svcX" ->
         <<"region2", "alpha", "stackX", "svcX">>
    [] link = "region3/bar/stackC/drone" ->
         <<"region3", "bar", "stackC", "drone">>
    [] link = "region1/region1/bar/stackC/drone" ->
         <<"region1", "region1", "bar", "stackC", "drone">>

SplitLinks ==
  {"web", "stackA/web", "stackB/svcB", "bar/stackC/drone",
   "region1/stackA/web", "region1/bar/stackC/drone",
   "region2/alpha/stackX/svcX", "region3/bar/stackC/drone",
   "region1/region1/bar/stackC/drone"}

\* a region name as the metadata gives it: a list of pieces, Quote being the
\* double quote character
Quote == "\""

RegionNames ==
  {<<"region1">>, <<Quote, "region1", Quote>>, <<Quote, "region1">>,
   <<"region1", Quote>>, <<Quote, Quote, "region1", Quote>>, <<"region3">>,
   <<Quote, "region2", Quote>>}

\* strings.TrimSuffix, strings.TrimPrefix
TrimSuffix(s, suffix) ==
  IF s # <<>> /\ s[Len(s)] = suffix THEN SubSeq(s, 1, Len(s) - 1) ELSE s

TrimPrefix(s, prefix) ==
  IF s # <<>> /\ s[1] = prefix THEN Tail(s) ELSE s

\* link: the link; region: what GetRegionName returns; fault: whether
\* GetRegionName fails; src: the source file
LinkInputs ==
  [link : SplitLinks, region : RegionNames, fault : BOOLEAN,
   src : BuildSources]

\* rancher.go 644-668: the fetch GetService makes, [fetch, args]; indexing
\* splitSvcName[1] of a one-part link panics
GetServiceFetch(in) ==
  LET splitSvcName == Split(in.link)
      regionName == TrimPrefix(TrimSuffix(in.region, Quote), Quote)
  IN IF in.fault THEN [fetch |-> "none", args |-> <<>>]
     ELSE IF Len(splitSvcName) = 4
     THEN IF <<splitSvcName[1]>> = regionName
          THEN [fetch |-> "GetServiceByEnvironment",
                args |-> Tail(splitSvcName)]
          ELSE [fetch |-> "GetServiceByRegionEnvironment",
                args |-> splitSvcName]
     ELSE IF Len(splitSvcName) = 3
     THEN [fetch |-> "GetServiceByEnvironment", args |-> splitSvcName]
     ELSE IF Len(splitSvcName) < 2 THEN [fetch |-> "panic", args |-> <<>>]
     ELSE [fetch |-> "GetServiceByName",
           args |-> <<splitSvcName[1], splitSvcName[2]>>]

\* part_000 692-705: no region name is read
GetServiceFetch_part000(in) ==
  LET splitSvcName == Split(in.link)
  IN IF Len(splitSvcName) = 4
     THEN [fetch |-> "GetServiceFromRegionEnvironment", args |-> splitSvcName]
     ELSE IF Len(splitSvcName) = 3
     THEN [fetch |-> "GetServiceInLocalRegion", args |-> splitSvcName]
     ELSE IF Len(splitSvcName) < 2 THEN [fetch |-> "panic", args |-> <<>>]
     ELSE [fetch |-> "GetServiceInLocalEnvironment",
           args |-> <<splitSvcName[1], splitSvcName[2]>>]

LinkInit ==
  /\ LoopInit
  /\ BuildIdle
  /\ SelIdle
  /\ lk \in LinkInputs
  /\ lkpc = "start"
  /\ lkout = <<>>
  /\ rin = <<>>
  /\ rpc = "off"
  /\ rstack = <<>>
  /\ reps = <<>>

\* a call of GetService
GetServiceCall ==
  /\ lkpc = "start"
  /\ lkout' = IF lk.src = "rancher.go" THEN GetServiceFetch(lk)
              ELSE GetServiceFetch_part000(lk)
  /\ lkpc' = "done"
  /\ UNCHANGED <<lk, resolveVars, loopVars, buildVars, selVars>>

LinkNext == GetServiceCall

LinkSpec == LinkInit /\ [][LinkNext]_vars

\* the fetches by their scope
PeerFetches == {"GetServiceByEnvironment", "GetServiceInLocalRegion"}

CrossRegionFetches ==
  {"GetServiceByRegionEnvironment", "GetServiceFromRegionEnvironment"}

LocalFetches == {"GetServiceByName", "GetServiceInLocalEnvironment"}

\* the self region: the region name less one leading and one trailing quote
SelfRegion(region) ==
  LET a == IF region # <<>> /\ region[Len(region)] = Quote
           THEN SubSeq(region, 1, Len(region) - 1) ELSE region
  IN IF a # <<>> /\ a[1] = Quote THEN SubSeq(a, 2, Len(a)) ELSE a

\* C22: a 4-part link whose first part is the self region is fetched as the
\* peer-environment service (env, stack, name) of parts 2..4, any other
\* 4-part link cross-region, a 3-part link as the peer-environment service
\* and a 2-part link locally as (stack, name).
C22_LinkResolution ==
  (lkpc = "done" /\ ~lk.fault) =>
    LET parts == Split(lk.link)
    IN /\ (Len(parts) = 4 /\ <<parts[1]>> = SelfRegion(lk.region)) =>
            /\ lkout.fetch \in PeerFetches
            /\ lkout.args = <<parts[2], parts[3], parts[4]>>
       /\ (Len(parts) = 4 /\ <<parts[1]>> # SelfRegion(lk.region)) =>
            /\ lkout.fetch \in CrossRegionFetches
            /\ lkout.args = parts
       /\ Len(parts) = 3 =>
            /\ lkout.fetch \in PeerFetches
            /\ lkout.args = parts
       /\ Len(parts) = 2 =>
            /\ lkout.fetch \in LocalFetches
            /\ lkout.args = parts

\* ------------------------------------------------------------------------
\* Further properties of BuildConfigFromMetadata
\* ------------------------------------------------------------------------

\* the positions of the rules on a source port
RulesOn(port) == {i \in 1..Len(bin.rules) : bin.rules[i].SourcePort = port}

\* C23 as claimed: a frontend's Protocol is the Protocol of the first rule,
\* in input order, that has the frontend's source port.
C23_FirstRuleProtocol ==
  bpc = "done" =>
    \A k \in 1..Len(bout) :
      \E i \in RulesOn(bout[k].Port) :
        /\ \A j \in RulesOn(bout[k].Port) : i <= j
        /\ bout[k].Protocol = bin.rules[i].Protocol

\* C23 as amended: a frontend's Protocol is the Protocol of the first rule,
\* in input order, that has the frontend's source port and is not skipped
\* (its service is active, or its container yields an endpoint).
C23_FirstWriterProtocol ==
  bpc = "done" =>
    \A k \in 1..Len(bout) :
      \E i \in RulesOn(bout[k].Port) :
        /\ Contributes(bin.rules[i])
        /\ \A j \in RulesOn(bout[k].Port) :
             Contributes(bin.rules[j]) => i <= j
        /\ bout[k].Protocol = bin.rules[i].Protocol

\* a build of two rules on one port, of different protocols, neither skipped
C23_Witness ==
  /\ bpc = "done"
  /\ Len(bin.rules) = 2
  /\ bin.rules[1].SourcePort = bin.rules[2].SourcePort
  /\ bin.rules[1].Protocol # bin.rules[2].Protocol
  /\ Contributes(bin.rules[1])
  /\ Contributes(bin.rules[2])
  /\ Len(bout) = 1
  /\ bout[1].Protocol = bin.rules[1].Protocol

\* ------------------------------------------------------------------------
\* Further properties of Stop and sync
\* ------------------------------------------------------------------------

\* C24: LBProvider.ApplyConfig is never invoked after LBProvider.Stop has
\* returned: no ApplyConfig call of a tick starts once the provider has been
\* stopped, however the Stop call and the tick interleave.
C24_NoApplyAfterStop ==
  [][\A w \in SyncWorkers :
       (wpc[w] = "apply" /\ wpc'[w] = "end") => providerStops = 0]_vars

\* C25: every call of Stop returns a non-nil error: the provider's error
\* when the provider fails to stop and "shutdown already in progress"
\* otherwise, also for the call that performs the shutdown.
C25_StopReturnsError ==
  \A c \in StopCallers :
    spc[c] = "ret" =>
      /\ sret[c] \in {"provider error", "shutdown already in progress"}
      /\ "provider" \in sdid[c] => sret[c] = "shutdown already in progress"
      /\ sret[c] = "provider error" => sdid[c] = {}

\* the call that performed the shutdown has returned
C25_Witness ==
  \E c \in StopCallers :
    /\ spc[c] = "ret"
    /\ sdid[c] = AllStopSteps
    /\ sret[c] = "shutdown already in progress"
    /\ shutdown

\* C26: the stop channel is closed at most once and the provider is stopped
\* at most once, also when two threads call Stop concurrently.
C26_CloseOnce ==
  stopCh <= 1 /\ providerStops <= 1

\* ------------------------------------------------------------------------
\* getServiceEndpoints, call by call
\* ------------------------------------------------------------------------

\* the deepest recursion followed
MaxDepth == 5

\* a dnsService of the given Links
NewAlias(name, links) ==
  [Name |-> name, Kind |-> "dnsService", State |-> "active",
   Containers |-> <<>>, ExternalIps |-> <<>>, Hostname |-> "",
   Links |-> links, HealthCheck |-> ""]

\* the snapshots: in "tree" no dnsService is reached from itself, in "self"
\* stackA/loop links to itself, in "mutual" stackA/ping and stackA/pong link
\* to each other
Snapshots == {"tree", "self", "mutual"}

\* GetService on a snapshot
GetServiceIn(snapshot, link) ==
  CASE link = "stackA/loop" ->
         NewAlias("loop", IF snapshot = "self"
                          THEN {"stackA/loop", "stackA/web"}
                          ELSE {"stackA/web", "stackA/ext"})
    [] link = "stackA/ping" -> NewAlias("ping", {"stackA/pong", "stackA/web"})
    [] link = "stackA/pong" ->
         NewAlias("pong", IF snapshot = "mutual"
                          THEN {"stackA/ping", "stackA/ext"}
                          ELSE {"stackA/ext"})
    [] OTHER -> GetService(link)

ResolveInputs ==
  [link : {"stackA/loop", "stackA/ping", "stackA/pong", "stackA/web",
           "stackA/alias", "stackA/gone"},
   snapshot : Snapshots]

\* the frame of a call of getServiceEndpoints on the service of a link: the
\* links getAliasServiceEndpoints has yet to visit and the endpoints so far
Frame(link) ==
  LET svc == GetServiceIn(rin.snapshot, link)
  IN IF EqualFold(svc.Kind, "externalService")
     THEN [link |-> link, todo |-> {},
           eps |-> getExternalServiceEndpoints(svc, 8080)]
     ELSE IF EqualFold(svc.Kind, "dnsService")
     THEN [link |-> link, todo |-> svc.Links, eps |-> <<>>]
     ELSE [link |-> link, todo |-> {},
           eps |-> getRegularServiceEndpoints(svc, 8080, selfHostUUID,
                                              bin.pref)]

ResolveInit ==
  /\ LoopInit
  /\ SelIdle
  /\ lk = <<>>
  /\ lkpc = "off"
  /\ lkout = <<>>
  /\ bpc = "off"
  /\ bin \in [rules : {<<>>}, pref : ValidTargets, src : BuildSources]
  /\ bidx = 0
  /\ frontendsMap = <<>>
  /\ allBe = <<>>
  /\ allEps = <<>>
  /\ bout = <<>>
  /\ bruns = 0
  /\ bprev = <<>>
  /\ rin \in ResolveInputs
  /\ rpc = "run"
  /\ rstack = <<Frame(rin.link)>>
  /\ reps = <<>>

\* getAliasServiceEndpoints: GetService(link) for a link of svc.Links and
\* the call of getServiceEndpoints on it
ResolveCall ==
  /\ rpc = "run"
  /\ Len(rstack) < MaxDepth
  /\ \E link \in rstack[Len(rstack)].todo :
       rstack' = [rstack EXCEPT ![Len(rstack)].todo = @ \ {link}]
                 \o <<Frame(link)>>
  /\ UNCHANGED <<rin, rpc, reps, linkVars, loopVars, buildVars, selVars>>

\* getServiceEndpoints sorts and returns; the caller appends the endpoints
ResolveReturn ==
  /\ rpc = "run"
  /\ rstack[Len(rstack)].todo = {}
  /\ LET newEps == SortEndpoints(rstack[Len(rstack)].eps)
         n == Len(rstack)
     IN IF n = 1
        THEN /\ reps' = newEps
             /\ rpc' = "done"
             /\ rstack' = <<>>
        ELSE /\ rstack' = [SubSeq(rstack, 1, n - 1)
                             EXCEPT ![n - 1].eps = @ \o newEps]
             /\ UNCHANGED <<reps, rpc>>
  /\ UNCHANGED <<rin, linkVars, loopVars, buildVars, selVars>>

ResolveNext == ResolveCall \/ ResolveReturn

ResolveSpec == ResolveInit /\ [][ResolveNext]_vars

\* C27: getServiceEndpoints terminates on every finite snapshot, also when a
\* dnsService links to itself or to a dnsService that links back: the
\* recursion never enters a service it is still resolving (on an unchanging
\* snapshot a call that does so repeats itself without end).
C27_Terminates ==
  rpc = "run" =>
    \A i, j \in 1..Len(rstack) : i < j => rstack[i].link # rstack[j].link

\* ------------------------------------------------------------------------
\* Frontends and skipped rules
\* ------------------------------------------------------------------------

\* the source ports, at least 1, all of whose rules are skipped
SkippedPorts ==
  {port \in {bin.rules[i].SourcePort : i \in 1..Len(bin.rules)} :
     /\ port >= 1
     /\ \A i \in RulesOn(port) : ~Contributes(bin.rules[i])}

\* C28: every frontend of a config that BuildConfigFromMetadata returns has
\* at least one backend, and a source port all of whose rules were skipped
\* (inactive service, or a container that yields no endpoint) has no
\* frontend.
C28_FrontendHasBackend ==
  bpc = "done" =>
    /\ \A k \in 1..Len(bout) : Len(bout[k].BackendServices) >= 1
    /\ \A port \in SkippedPorts :
         \A k \in 1..Len(bout) : bout[k].Port # port

\* a build in which the one rule of a port was skipped and another port has
\* its frontend
C28_Witness ==
  /\ bpc = "done"
  /\ SkippedPorts # {}
  /\ Len(bin.rules) = 2
  /\ Len(bout) = 1
  /\ bout[1].Port \notin SkippedPorts
  /\ Len(bout[1].BackendServices) = 1

\* ------------------------------------------------------------------------
\* Priority of the rules processSelector emits
\* ------------------------------------------------------------------------

\* C29: every rule that processSelector emits for a selector rule has
\* Priority 0, whatever the Priority of the selector rule and of the matched
\* service's nested rule, so the backend created from it has Priority 0; a
\* rule without a selector is passed through with its Priority, which the
\* backend it creates takes.
C29_EmittedPriority ==
  selpc = "done" =>
    /\ \A rule \in Emitted : rule.Priority = 0
    /\ selret = "nil" =>
         \A i \in 1..Len(sel.rules) :
           sel.rules[i].Selector = <<>> =>
             \E j \in 1..Len(lbMeta) : lbMeta[j] = sel.rules[i]
    /\ bpc # "off" =>
         \A pathUUID \in DOMAIN allBe :
           /\ allBe[pathUUID].Priority = Creator(pathUUID).Priority
           /\ Creator(pathUUID) \in Emitted => allBe[pathUUID].Priority = 0

\* a build of the rules emitted for a selector rule of Priority above 0, on
\* a service whose nested rules have Priority above 0, next to a rule
\* without a selector that keeps its Priority 2
C29_Witness ==
  /\ bpc = "done"
  /\ Len(sel.rules) = 2
  /\ \E i, j \in 1..2 :
       /\ sel.rules[i].Selector # <<>>
       /\ sel.rules[i].Priority > 0
       /\ IsSelectorMatch(sel.rules[i].Selector, SvcL.Labels)
       /\ sel.rules[j].Selector = <<>>
       /\ sel.rules[j].Priority = 2
  /\ \E pathUUID \in DOMAIN allBe :
       /\ Creator(pathUUID) \in Emitted
       /\ Creator(pathUUID).Service = "stackB/svcL"
       /\ allBe[pathUUID].Priority = 0
  /\ \E pathUUID \in DOMAIN allBe :
       /\ Creator(pathUUID) \notin Emitted
       /\ allBe[pathUUID].Priority = 2

\* ------------------------------------------------------------------------
\* Rules that target a container
\* ------------------------------------------------------------------------

\* C30: for a rule that targets a container directly (empty Service) the
\* locality preference is ignored: the loop body puts the endpoint of a live
\* container behind the rule's backend under any, only-local and
\* prefer-local alike, also when the container's HostUUID differs from
\* selfHostUUID, and for a container that is not live it changes nothing.
C30_ContainerRule ==
  [][(/\ bpc = "rules"
      /\ bidx' = bidx + 1
      /\ bin.rules[bidx].Service = ""
      /\ bin.rules[bidx].SourcePort >= 1)
     => LET rule == bin.rules[bidx]
            c == GetContainer(envUUID, rule.Container)
            pathUUID == PathUUID(rule.SourcePort, Normalize(rule).hostname,
                                 Normalize(rule).path)
        IN IF Live(c)
           THEN /\ Itoa(rule.SourcePort) \in DOMAIN frontendsMap'
                /\ pathUUID \in DOMAIN allBe'
                /\ \E k \in 1..Len(allBe'[pathUUID].Endpoints) :
                     /\ allBe'[pathUUID].Endpoints[k].IP = c.PrimaryIp
                     /\ allBe'[pathUUID].Endpoints[k].Port = rule.TargetPort
           ELSE UNCHANGED <<frontendsMap, allBe, allEps>>]_vars

\* under only-local or prefer-local, a build of a rule on a live container
\* of another host, whose endpoint is emitted, and of a rule on a stopped
\* container, which added nothing
C30_Witness ==
  /\ bpc = "done"
  /\ bin.pref # "any"
  /\ Len(bin.rules) = 2
  /\ \E i, j \in 1..2 :
       /\ bin.rules[i].Service = ""
       /\ bin.rules[i].SourcePort >= 1
       /\ Live(GetContainer(envUUID, bin.rules[i].Container))
       /\ GetContainer(envUUID, bin.rules[i].Container).HostUUID
            # selfHostUUID
       /\ bin.rules[j].Service = ""
       /\ bin.rules[j].Container # ""
       /\ ~Live(GetContainer(envUUID, bin.rules[j].Container))
       /\ bin.rules[j].SourcePort = bin.rules[i].SourcePort
       /\ Len(bout) = 1
       /\ Len(bout[1].BackendServices) = 1
       /\ Len(bout[1].BackendServices[1].Endpoints) = 1
       /\ bout[1].BackendServices[1].Endpoints[1].IP =
            GetContainer(envUUID, bin.rules[i].Container).PrimaryIp

====
